---- MODULE Spec2Model ----
(***************************************************************************)
(* Model of sovrin_client/cli/cli.py (class SovrinCli): the link lookup    *)
(* (exact / likely matching and disambiguation), the correlation of        *)
(* submitted ledger requests with their replies, the sync / accept life    *)
(* cycle of a link and the claim request context.                          *)
(*                                                                         *)
(* Strings are sequences of one-character strings, so that letter case,    *)
(* quote removal and substring search are computed and not assumed.        *)
(***************************************************************************)
EXTENDS Integers, Sequences, FiniteSets, TLC

VARIABLES
    links,        \* activeWallet's links, in the wallet's order: their names
    isAccepted,   \* Link.isAccepted of every link of the wallet, by name
    cmd,          \* the last link command: its input, what the search gave,
                  \* the link it selected and the notices it printed
    submitted,    \* request keys submitted to the client
    walletObjs,   \* what the command of each key added to the wallet
    reqKind,      \* the continuation registered for each key
    replies,      \* client: the reply recorded for each key (or None)
    errors,       \* client: the error recorded for each key (or None)
    scheduled,    \* event loop: completion checks waiting per key
    fired,        \* how many times the continuation of a key was invoked
    contOut,      \* what the continuation of a key printed (or that it faulted)
    polls,        \* completion checks run per key (counted up to MaxPolls)
    satPolls,     \* checks run per key that found a reply or an error recorded
    remoteEndPoint,  \* Link.remoteEndPoint of every link, by name (or None)
    linkLastSynced,  \* Link.linkLastSynced of every link, by name
    identifiers,     \* number of identifiers (keys) in the active wallet
    activeEnv,       \* the environment connected to (or None)
    hasSufficientConnections,  \* activeClient.hasSufficientConnections
    syncs,        \* agent: the synchronizations asked of it, in order
    acceptLog,    \* agent: the acceptInvitation calls made to it, in order
    effects,      \* what the last sync / accept command did besides looking up
    curContext,   \* (current link, current claim request, self attested attrs)
    claimProofReqAttrs,  \* ClaimProofRequest.attributes of every claim request
    proofs,       \* event loop: the _showMatchingClaimProof runs scheduled
    resolved,     \* what the last _showMatchingClaimProof run read and gave
    sent,         \* agent: what the last command asked of it for a claim
    claimShows,   \* event loop: the _showReceivedOrAvailableClaim runs scheduled
    activeWallet, \* self._activeWallet (or None)
    activeClient, \* self._activeClient: the connect that built it (or NoClient)
    promptEnv,    \* the environment shown in the prompt (or None)
    connects,     \* connect commands that went through so far
    connChecks,   \* event loop: ensureClientConnected calls waiting
    connNotices   \* "Connected to <env>" notices printed, per connect

lookupVars == <<links, isAccepted, cmd>>
corrVars == <<submitted, walletObjs, reqKind, replies, errors, scheduled, fired, contOut,
              polls, satPolls>>
envVars == <<activeWallet, activeClient, promptEnv, connects, connChecks,
             connNotices>>
lifeVars == <<remoteEndPoint, linkLastSynced, identifiers, activeEnv,
              hasSufficientConnections, syncs, acceptLog, envVars>>
ctxVars == <<curContext, claimProofReqAttrs, proofs, resolved, sent, claimShows>>
vars == <<links, isAccepted, cmd, submitted, walletObjs, reqKind, replies, errors,
          scheduled, fired, contOut, polls, satPolls, remoteEndPoint,
          linkLastSynced, identifiers, activeEnv, hasSufficientConnections,
          syncs, acceptLog, effects, curContext, claimProofReqAttrs, proofs,
          resolved, sent, claimShows, activeWallet, activeClient, promptEnv,
          connects, connChecks, connNotices>>

-----------------------------------------------------------------------------
(* Bounds *)

MaxLinks == 3
MaxReqs == 2
MaxPolls == 2
MaxConnects == 2
MaxLinkCmds == 2
MaxProofs == 1
MaxRcvdClaims == 2

-----------------------------------------------------------------------------
(* Strings *)

Letters == {"a", "A"}
DQUOTE == "\""
SQUOTE == "'"

\* names of one or two letters
Words == {<<x>> : x \in Letters} \cup {<<x, y>> : x, y \in Letters}
LinkNames == Words
\* what the user types for a link name: the words, bare or in quotes
Queries ==
    Words \cup {<<DQUOTE>> \o w \o <<DQUOTE>> : w \in Words}
          \cup {<<SQUOTE>> \o w \o <<SQUOTE>> : w \in Words}

\* str.lower()
lowerChar(c) == IF c = "A" THEN "a" ELSE IF c = "B" THEN "b" ELSE c
lower(s) == [i \in 1..Len(s) |-> lowerChar(s[i])]

\* needle in haystack
isSubstring(needle, haystack) ==
    \E i \in 0..(Len(haystack) - Len(needle)) :
        SubSeq(haystack, i + 1, i + Len(needle)) = needle

RECURSIVE removeChar(_, _)
removeChar(s, c) ==
    IF s = <<>> THEN <<>>
    ELSE IF Head(s) = c THEN removeChar(Tail(s), c)
         ELSE <<Head(s)>> \o removeChar(Tail(s), c)

removeSpecialChars(name) == removeChar(removeChar(name, DQUOTE), SQUOTE)

isNotMatching(source, target) == lower(source) /= lower(target)

-----------------------------------------------------------------------------
(* Link lookup *)

None == "None"
NoLink == <<>>                 \* no link selected (None)
IndexError == <<"IndexError">> \* [0] on an empty list
WalletName == "Default"        \* activeWallet.name
EmptyDict == [k \in {} |-> <<>>]

Notice(kind, query, name) == [kind |-> kind, query |-> query, name |-> name]
\* a notice that names no link
Msg(kind) == Notice(kind, <<>>, NoLink)

\* Wallet.getMatchingLinks: the links whose name contains the query, letter
\* case ignored, in the wallet's order.
RECURSIVE getMatchingLinks(_, _)
getMatchingLinks(w, name) ==
    IF w = <<>> THEN <<>>
    ELSE IF isSubstring(lower(name), lower(Head(w)))
         THEN <<Head(w)>> \o getMatchingLinks(Tail(w), name)
         ELSE getMatchingLinks(Tail(w), name)

\* d[k].append(v) if k in d, else d[k] = [v]
dictAppendOverwriting(d, k, v) == (k :> <<v>>) @@ d
dictAppend(d, k, v) ==
    IF k \in DOMAIN d THEN [d EXCEPT ![k] = Append(@, v)]
    ELSE (k :> <<v>>) @@ d

\* {**a, **b} and a.update(b): b's entry replaces a's under the same key
dictMerge(a, b) == b @@ a

RECURSIVE sumOfLens(_)
sumOfLens(d) ==
    IF DOMAIN d = {} THEN 0
    ELSE LET k == CHOOSE x \in DOMAIN d : TRUE
         IN Len(d[k]) + sumOfLens([x \in DOMAIN d \ {k} |-> d[x]])

RECURSIVE dictItems(_)
dictItems(d) ==
    IF DOMAIN d = {} THEN <<>>
    ELSE LET k == CHOOSE x \in DOMAIN d : TRUE
         IN d[k] \o dictItems([x \in DOMAIN d \ {k} |-> d[x]])

\* one turn of the loop over a wallet's invitations
classifyCaseInsensitive(acc, wname, i, linkName) ==
    IF lower(i) = lower(linkName)
    THEN [acc EXCEPT !.exactlyMatched = dictAppend(@, wname, i)]
    ELSE [acc EXCEPT !.likelyMatched = dictAppend(@, wname, i)]
classifyOverwriting(acc, wname, i, linkName) ==
    IF i = linkName
    THEN [acc EXCEPT !.exactlyMatched = dictAppend(@, wname, i)]
    ELSE [acc EXCEPT !.likelyMatched = dictAppendOverwriting(@, wname, i)]
classify(acc, wname, i, linkName) ==
    IF i = linkName
    THEN [acc EXCEPT !.exactlyMatched = dictAppend(@, wname, i)]
    ELSE [acc EXCEPT !.likelyMatched = dictAppend(@, wname, i)]

RECURSIVE classifyAll(_, _, _, _)
classifyAll(acc, wname, invitations, linkName) ==
    IF invitations = <<>> THEN acc
    ELSE classifyAll(classify(acc, wname, Head(invitations), linkName),
                     wname, Tail(invitations), linkName)

_getInvitationMatchingLinks(linkName) ==
    classifyAll([exactlyMatched |-> EmptyDict, likelyMatched |-> EmptyDict],
                WalletName, getMatchingLinks(links, linkName), linkName)

_getMatchingInvitationsDetail(linkName) ==
    LET linkInvitations ==
            _getInvitationMatchingLinks(removeSpecialChars(linkName))
        exactlyMatchedLinks == linkInvitations.exactlyMatched
        likelyMatchedLinks == linkInvitations.likelyMatched
    IN [totalFound |-> sumOfLens(dictMerge(exactlyMatchedLinks,
                                           likelyMatchedLinks)),
        exactlyMatchedLinks |-> exactlyMatchedLinks,
        likelyMatchedLinks |-> likelyMatchedLinks]

firstValue(d) ==
    IF DOMAIN d = {} THEN <<>> ELSE d[CHOOSE k \in DOMAIN d : TRUE]

_getOneLinkExactOnly(exactlyMatchedLinks, likelyMatchedLinks) ==
    LET l == firstValue(exactlyMatchedLinks)
    IN IF l = <<>> THEN IndexError ELSE l[1]
_getOneLinkLikelyFirst(exactlyMatchedLinks, likelyMatchedLinks) ==
    LET l == IF DOMAIN likelyMatchedLinks /= {}
             THEN firstValue(likelyMatchedLinks)
             ELSE firstValue(exactlyMatchedLinks)
    IN IF l = <<>> THEN IndexError ELSE l[1]
_getOneLink(exactlyMatchedLinks, likelyMatchedLinks) ==
    LET l == IF Cardinality(DOMAIN exactlyMatchedLinks) = 1
             THEN firstValue(exactlyMatchedLinks)
             ELSE firstValue(likelyMatchedLinks)
    IN IF l = <<>> THEN IndexError ELSE l[1]

_printNoLinkFoundMsg ==
    <<Notice("NoLinkFound", <<>>, NoLink),
      Notice("SuggestShowAndLoadFile", <<>>, NoLink)>>

RECURSIVE candidateNotices(_)
candidateNotices(ls) ==
    IF ls = <<>> THEN <<>>
    ELSE <<Notice("Candidate", <<>>, Head(ls))>> \o candidateNotices(Tail(ls))

_printMoreThanOneLinkFoundMsg(linkName, exactlyMatchedLinks, likelyMatchedLinks) ==
    <<Notice("MoreThanOneLink", linkName, NoLink)>>
    \o candidateNotices(dictItems(dictMerge(exactlyMatchedLinks,
                                            likelyMatchedLinks)))
    \o <<Notice("ReEnterMoreSpecific", <<>>, NoLink),
         Notice("SuggestShowAndAccept", <<>>, NoLink)>>

expandingNoticeIfCaseDiffers(linkName, li) ==
    IF linkName /= li /\ lower(linkName) = lower(li)
    THEN <<Notice("Expanding", linkName, li)>> ELSE <<>>
expandingNotice(linkName, li) ==
    IF isNotMatching(linkName, li)
    THEN <<Notice("Expanding", linkName, li)>> ELSE <<>>

_getOneLinkForFurtherProcessingNoZeroCheck(linkName) ==
    LET d == _getMatchingInvitationsDetail(linkName)
        li == _getOneLink(d.exactlyMatchedLinks, d.likelyMatchedLinks)
    IN IF d.totalFound > 1
       THEN [li |-> NoLink,
             out |-> _printMoreThanOneLinkFoundMsg(linkName,
                         d.exactlyMatchedLinks, d.likelyMatchedLinks)]
       ELSE IF li = IndexError THEN [li |-> IndexError, out |-> <<>>]
       ELSE [li |-> li, out |-> expandingNotice(linkName, li)]
_getOneLinkForFurtherProcessing(linkName) ==
    LET d == _getMatchingInvitationsDetail(linkName)
        li == _getOneLink(d.exactlyMatchedLinks, d.likelyMatchedLinks)
    IN IF d.totalFound = 0
       THEN [li |-> NoLink, out |-> _printNoLinkFoundMsg]
       ELSE IF d.totalFound > 1
       THEN [li |-> NoLink,
             out |-> _printMoreThanOneLinkFoundMsg(linkName,
                         d.exactlyMatchedLinks, d.likelyMatchedLinks)]
       ELSE IF li = IndexError THEN [li |-> IndexError, out |-> <<>>]
       ELSE [li |-> li, out |-> expandingNotice(linkName, li)]

\* show link: the same lookup, written out in the handler, then the link
_showLinkOut(linkName) ==
    LET d == _getMatchingInvitationsDetail(linkName)
        li == _getOneLink(d.exactlyMatchedLinks, d.likelyMatchedLinks)
    IN IF d.totalFound = 0
       THEN [li |-> NoLink, out |-> _printNoLinkFoundMsg]
       ELSE IF d.totalFound = 1
       THEN IF li = IndexError THEN [li |-> IndexError, out |-> <<>>]
            ELSE [li |-> li,
                  out |-> expandingNotice(linkName, li)
                          \o <<Notice("LinkInfo", <<>>, li)>>
                          \o (IF isAccepted[li]
                              THEN <<Notice("SuggestPostAccept", <<>>, li)>>
                              ELSE <<Notice("SuggestSyncAndAccept", <<>>, li)>>)]
       ELSE [li |-> NoLink,
             out |-> _printMoreThanOneLinkFoundMsg(linkName,
                         d.exactlyMatchedLinks, d.likelyMatchedLinks)]

\* what a link command leaves behind: its input and its outcome
CmdRecord(op, raw, linkName, r) ==
    LET searched == removeSpecialChars(linkName)
        m == _getInvitationMatchingLinks(searched)
    IN [op |-> op, raw |-> raw, query |-> linkName,
        found |-> getMatchingLinks(links, searched),
        exact |-> m.exactlyMatched, likely |-> m.likelyMatched,
        li |-> r.li, out |-> r.out]

NoCmd == [op |-> "none", raw |-> <<>>, query |-> <<>>, found |-> <<>>,
          exact |-> EmptyDict, likely |-> EmptyDict, li |-> NoLink,
          out |-> <<>>]

\* Link.linkLastSynced of a link never synchronized (None); afterwards the
\* number of the synchronization that stamped it
NeverSynced == 0

\* what a sync / accept command did after the lookup
NoClient == 0
NoEffects == [connected |-> FALSE, env |-> None, keyCreated |-> FALSE,
              syncStarted |-> FALSE, acceptSent |-> FALSE]

\* self.curContext = (None, None, {})
\* a claim request is known by the link that presented it and its name
NoAttrs == [a \in {} |-> None]
NoClaimReq == [owner |-> NoLink, name |-> <<>>]
NoContext == [link |-> NoLink, claimReq |-> NoClaimReq, attrs |-> NoAttrs]

\* no _showMatchingClaimProof has run since the prompt
NoResolve ==
    [claimReq |-> NoClaimReq, before |-> NoAttrs, selfAttestedAttrs |-> NoAttrs,
     claims |-> <<>>, after |-> NoAttrs, verifiable |-> {}]

\* sync, accept invitation from, ping: the link name without quotes is
\* looked up before anything else is done
LinkLookup(raw) ==
    LET linkName == removeSpecialChars(raw)
    IN /\ cmd = NoCmd
       /\ cmd' = CmdRecord("lookup", raw, linkName,
                           _getOneLinkForFurtherProcessing(linkName))
       /\ UNCHANGED <<links, isAccepted>>
       /\ UNCHANGED corrVars
       /\ UNCHANGED <<lifeVars, effects, ctxVars>>

_showLink(raw) ==
    LET linkName == removeChar(raw, DQUOTE)
    IN /\ cmd = NoCmd
       /\ cmd' = CmdRecord("showLink", raw, linkName, _showLinkOut(linkName))
       /\ UNCHANGED <<links, isAccepted>>
       /\ UNCHANGED corrVars
       /\ UNCHANGED <<lifeVars, effects, ctxVars>>

\* the shell is back at its prompt: the next command starts a new record
Prompt ==
    /\ cmd /= NoCmd
    /\ cmd' = NoCmd
    /\ effects' = NoEffects
    /\ sent' = <<>>
    /\ resolved' = NoResolve
    /\ UNCHANGED <<links, isAccepted>>
    /\ UNCHANGED corrVars
    /\ UNCHANGED <<lifeVars, curContext, claimProofReqAttrs, proofs, claimShows>>

-----------------------------------------------------------------------------
(* Correlation of submitted requests with their replies *)

Keys == 1..MaxReqs
Clbks == {"getNymReply", "addNymOut", "addAttribOut", "sendNodeOut",
          "poolUpgOut"}
NoClbk == "NoClbk"
NoCond == "NoCond"           \* cond=None
Replies == {"Reply"}
ErrorValues == {"Error"}

\* reply[KEY] of a reply that is None
TypeError == <<"TypeError">>

\* The continuations: what each prints, as the set of its possible outputs
\* (getNymReply prints by the DATA the ledger returned for the NYM).
getNymReply(reply, err) ==
    IF reply = None THEN {TypeError}
    ELSE {<<"TransactionIdForNym", n>> :
            n \in {"NymNotFound", "ErrorDuringFetchingVerkey",
                   "CurrentVerkeySameAsIdentifier", "NoVerkeyEverAssigned",
                   "NoActiveVerkeyFound", "CurrentVerkeyForNym"}}

addNymOut(reply, error) ==
    IF error /= None THEN {<<"ErrorNotice">>}
    ELSE IF reply = None THEN {TypeError} ELSE {<<"NymAdded">>}

addAttribOut(reply, error) ==
    IF reply = None THEN {TypeError} ELSE {<<"AttributeAdded">>}

sendNodeOut(reply, error) ==
    IF error /= None THEN {<<"NodeRequestFailed">>}
    ELSE IF reply = None THEN {TypeError} ELSE {<<"NodeRequestCompleted">>}

poolUpgOut(reply, error) == {<<"PoolUpgradeSuccessful">>}

\* clbk(reply, err)
Continuation(clbk, reply, err) ==
    CASE clbk = "getNymReply" -> getNymReply(reply, err)
      [] clbk = "addNymOut" -> addNymOut(reply, err)
      [] clbk = "addAttribOut" -> addAttribOut(reply, err)
      [] clbk = "sendNodeOut" -> sendNodeOut(reply, err)
      [] OTHER -> poolUpgOut(reply, err)

Min(a, b) == IF a < b THEN a ELSE b

\* sovrin_common.util.ensureReqCompleted: one completion check of reqKey.
\* queue is the event loop's queue once this check has been taken from it.
ensureReqCompleted(queue, reqKey, clbk, cond) ==
    LET reply == replies[reqKey]
        err == errors[reqKey]
        seen == reply /= None \/ err /= None
    IN /\ polls' = [polls EXCEPT ![reqKey] = Min(@ + 1, MaxPolls)]
       /\ satPolls' = [satPolls EXCEPT
                         ![reqKey] = IF seen THEN Min(@ + 1, MaxPolls) ELSE @]
       /\ IF err = None /\ reply = None /\ (cond = NoCond \/ cond = "False")
          THEN /\ scheduled' = [queue EXCEPT ![reqKey] = @ + 1]
               /\ UNCHANGED <<fired, contOut>>
          ELSE /\ scheduled' = queue
               /\ IF clbk /= NoClbk
                  THEN /\ fired' = [fired EXCEPT ![reqKey] = @ + 1]
                       /\ \E o \in Continuation(clbk, reply, err) :
                              contOut' = [contOut EXCEPT ![reqKey] = o]
                  ELSE UNCHANGED <<fired, contOut>>

\* SovrinCli._ensureReqCompleted hands its arguments on
_ensureReqCompletedCondAlwaysTrue(queue, reqKey, clbk, cond) ==
    ensureReqCompleted(queue, reqKey, clbk, "True")
_ensureReqCompletedWithoutClbk(queue, reqKey, clbk, cond) ==
    ensureReqCompleted(queue, reqKey, NoClbk, cond)
_ensureReqCompleted(queue, reqKey, clbk, cond) ==
    ensureReqCompleted(queue, reqKey, clbk, cond)

\* the event loop runs a check that call_later scheduled for reqKey
RunCheck(reqKey) ==
    /\ scheduled[reqKey] > 0
    /\ _ensureReqCompleted([scheduled EXCEPT ![reqKey] = @ - 1], reqKey,
                           reqKind[reqKey], NoCond)
    /\ UNCHANGED <<submitted, walletObjs, reqKind, replies, errors>>
    /\ UNCHANGED lookupVars
    /\ UNCHANGED <<lifeVars, effects, ctxVars>>

\* looper.loop.call_later(.2, self._ensureReqCompleted, req.key, client, clbk)
callLaterTwice(queue, reqKey) == [queue EXCEPT ![reqKey] = @ + 2]
callLaterDropped(queue, reqKey) == queue
callLater(queue, reqKey) == [queue EXCEPT ![reqKey] = @ + 1]

\* the continuation is called from the command instead of being scheduled
submitReqsCallingClbk(obj, clbk) ==
    LET key == Cardinality(submitted) + 1
    IN /\ key \in Keys
       /\ walletObjs' = [walletObjs EXCEPT ![key] = obj]
       /\ submitted' = submitted \cup {key}
       /\ reqKind' = [reqKind EXCEPT ![key] = clbk]
       /\ fired' = [fired EXCEPT ![key] = @ + 1]
       /\ \E o \in Continuation(clbk, replies[key], errors[key]) :
              contOut' = [contOut EXCEPT ![key] = o]
       /\ UNCHANGED <<replies, errors, scheduled, polls, satPolls>>

\* req, = self.activeClient.submitReqs(...), then the first check is scheduled
submitReqs(obj, clbk) ==
    LET key == Cardinality(submitted) + 1
    IN /\ key \in Keys
       /\ walletObjs' = [walletObjs EXCEPT ![key] = obj]
       /\ submitted' = submitted \cup {key}
       /\ reqKind' = [reqKind EXCEPT ![key] = clbk]
       /\ scheduled' = callLater(scheduled, key)
       /\ UNCHANGED <<replies, errors, fired, contOut, polls, satPolls>>

submitAndAwait(obj, clbk) ==
    /\ submitReqs(obj, clbk)
    /\ UNCHANGED lookupVars
    /\ UNCHANGED <<lifeVars, effects, ctxVars>>

_getNym == submitAndAwait("IdentityRequest", "getNymReply")
_addNym == submitAndAwait("SponsoredIdentity", "addNymOut")
_addAttribToNym == submitAndAwait("Attribute", "addAttribOut")
_sendNodeTxn == submitAndAwait("Node", "sendNodeOut")
_sendPoolUpgTxn == submitAndAwait("Upgrade", "poolUpgOut")

\* send POOL_UPGRADE: what the command line gave for action, schedule and
\* timeout (None where the option is absent)
START == "start"
UpgradeActions == {START, "cancel"}
Schedules == {None, "Parsable", "Unparsable"}
Timeouts == {None, "10", "abc"}

\* ast.literal_eval(schedule.strip()) raises on what is not a literal
literalEvalRaises(schedule) == schedule = "Unparsable"
\* int(timeout.strip()) raises ValueError on what is not a number
intRaises(timeout) == timeout = "abc"

\* the schedule is passed on without being parsed
checkPoolUpgInputUnparsed(action, schedule, timeout) ==
    IF action = START /\ schedule = None
    THEN [ok |-> FALSE, out |-> <<Msg("ScheduleNeedToBeProvided")>>]
    ELSE IF action = START /\ timeout = None
    THEN [ok |-> FALSE, out |-> <<Msg("TimeoutNeedToBeProvided")>>]
    ELSE IF timeout /= None /\ intRaises(timeout)
    THEN [ok |-> FALSE, out |-> <<Msg("ValueErrorRaised")>>]
    ELSE [ok |-> TRUE, out |-> <<>>]

\* the checks of _sendPoolUpgAction before _sendPoolUpgTxn is called
checkPoolUpgInput(action, schedule, timeout) ==
    IF action = START /\ schedule = None
    THEN [ok |-> FALSE, out |-> <<Msg("ScheduleNeedToBeProvided")>>]
    ELSE IF action = START /\ timeout = None
    THEN [ok |-> FALSE, out |-> <<Msg("TimeoutNeedToBeProvided")>>]
    ELSE IF schedule /= None /\ literalEvalRaises(schedule)
    THEN [ok |-> FALSE, out |-> <<Msg("ScheduleMustBeInProperFormat")>>]
    ELSE IF timeout /= None /\ intRaises(timeout)
    THEN [ok |-> FALSE, out |-> <<Msg("ValueErrorRaised")>>]
    ELSE [ok |-> TRUE, out |-> <<>>]

\* send POOL_UPGRADE ...
_sendPoolUpgAction(canMakeSovrinRequest, action, schedule, timeout) ==
    LET r == checkPoolUpgInput(action, schedule, timeout)
        sends == canMakeSovrinRequest /\ r.ok
    IN /\ cmd = NoCmd
       /\ cmd' = [NoCmd EXCEPT
                    !.op = "sendPoolUpg",
                    !.raw = <<canMakeSovrinRequest, action, schedule, timeout>>,
                    !.out = IF ~canMakeSovrinRequest THEN <<>>
                            ELSE IF r.ok THEN <<Msg("SendingPoolUpgrade")>>
                            ELSE r.out]
       /\ IF sends THEN submitReqs("Upgrade", "poolUpgOut")
          ELSE UNCHANGED corrVars
       /\ UNCHANGED <<links, isAccepted, effects>>
       /\ UNCHANGED <<lifeVars, ctxVars>>

\* the client records the reply to a submitted request
ClientRecordsReply(reqKey, reply) ==
    /\ reqKey \in submitted
    /\ replies[reqKey] = None
    /\ replies' = [replies EXCEPT ![reqKey] = reply]
    /\ UNCHANGED <<submitted, walletObjs, reqKind, errors, scheduled, fired, contOut,
                   polls, satPolls>>
    /\ UNCHANGED lookupVars
    /\ UNCHANGED <<lifeVars, effects, ctxVars>>

\* the client records an error for a submitted request
ClientRecordsError(reqKey, err) ==
    /\ reqKey \in submitted
    /\ errors[reqKey] = None
    /\ errors' = [errors EXCEPT ![reqKey] = err]
    /\ UNCHANGED <<submitted, walletObjs, reqKind, replies, scheduled, fired, contOut,
                   polls, satPolls>>
    /\ UNCHANGED lookupVars
    /\ UNCHANGED <<lifeVars, effects, ctxVars>>

-----------------------------------------------------------------------------
(* Link life cycle: sync and accept invitation *)

EndPoints == {"EpLoaded", "EpResolved"}
SyncErrors == {"SyncError"}

IsLink(li) == li /= NoLink /\ li /= IndexError

\* self.activeEnv and self.activeClient and
\* self.activeClient.hasSufficientConnections
_isConnectedToAnyEnv == activeEnv /= None /\ hasSufficientConnections

\* Link.isRemoteEndpointAvailable
isRemoteEndpointAvailable(ep) == ep /= None

_printCannotSyncSinceNotConnectedEnvMessage ==
    <<Msg("CannotSyncNotConnectedPleaseConnect"), Msg("ConnectUsage")>>

\* _printNotConnectedEnvMessage("Cannot sync because not connected")
_printNotConnectedEnvMessage ==
    <<Msg("CannotSyncNotConnectedPleaseConnect"), Msg("ConnectUsage")>>

\* self._newSigner(wallet=self.activeWallet): the wallet gets one identifier
_newSigner(ids) == ids + 1

\* a synchronization the agent was asked for: the link, the continuation
\* bound into doneCallback, and what became of it
SyncAttempt(li, postSync) ==
    [name |-> li, postSync |-> postSync, state |-> "pending",
     invoked |-> FALSE, out |-> <<>>]

\* agent.sync(li.name, doneCallback); raises NotConnectedToNetwork offline
agentSyncRaises == ~_isConnectedToAnyEnv
agentSync(li, postSync) == Append(syncs, SyncAttempt(li, postSync))

\* agent.acceptInvitation(link)
AcceptCall(li, ep, via, attempt) ==
    [name |-> li, endpoint |-> ep, via |-> via, attempt |-> attempt,
     done |-> FALSE]
_sendAcceptInviteToTargetEndpoint(log, call) == Append(log, call)

\* what _getTargetEndpoint leaves: the wallet's identifiers, the agent's
\* synchronizations, the notices printed
_getTargetEndpointStickyFailure(li, postSync) ==
    IF \E i \in 1..Len(syncs) : syncs[i].name = li /\ syncs[i].state = "err"
    THEN [identifiers |-> identifiers, syncs |-> syncs, keyCreated |-> FALSE,
          syncStarted |-> FALSE, out |-> <<>>]
    ELSE
    LET noKey == identifiers = 0
        ids == IF noKey THEN _newSigner(identifiers) ELSE identifiers
        keyOut == IF noKey THEN <<Msg("NoKeyPresentSoAddingOne")>> ELSE <<>>
    IN IF _isConnectedToAnyEnv
       THEN IF agentSyncRaises
            THEN [identifiers |-> ids, syncs |-> syncs, keyCreated |-> noKey,
                  syncStarted |-> FALSE,
                  out |-> keyOut \o <<Msg("Synchronizing")>>
                          \o _printCannotSyncSinceNotConnectedEnvMessage]
            ELSE [identifiers |-> ids, syncs |-> agentSync(li, postSync),
                  keyCreated |-> noKey, syncStarted |-> TRUE,
                  out |-> keyOut \o <<Msg("Synchronizing")>>]
       ELSE [identifiers |-> ids, syncs |-> syncs, keyCreated |-> noKey,
             syncStarted |-> FALSE,
             out |-> keyOut \o (IF activeEnv = None
                                THEN _printCannotSyncSinceNotConnectedEnvMessage
                                ELSE <<>>)]
_getTargetEndpointWithoutKey(li, postSync) ==
    LET noKey == identifiers = 0
        ids == identifiers
        keyOut == IF noKey THEN <<Msg("NoKeyPresentSoAddingOne")>> ELSE <<>>
    IN IF _isConnectedToAnyEnv
       THEN IF agentSyncRaises
            THEN [identifiers |-> ids, syncs |-> syncs, keyCreated |-> noKey,
                  syncStarted |-> FALSE,
                  out |-> keyOut \o <<Msg("Synchronizing")>>
                          \o _printCannotSyncSinceNotConnectedEnvMessage]
            ELSE [identifiers |-> ids, syncs |-> agentSync(li, postSync),
                  keyCreated |-> noKey, syncStarted |-> TRUE,
                  out |-> keyOut \o <<Msg("Synchronizing")>>]
       ELSE [identifiers |-> ids, syncs |-> syncs, keyCreated |-> noKey,
             syncStarted |-> FALSE,
             out |-> keyOut \o (IF activeEnv = None
                                THEN _printCannotSyncSinceNotConnectedEnvMessage
                                ELSE <<>>)]
_getTargetEndpoint(li, postSync) ==
    LET noKey == identifiers = 0
        ids == IF noKey THEN _newSigner(identifiers) ELSE identifiers
        keyOut == IF noKey THEN <<Msg("NoKeyPresentSoAddingOne")>> ELSE <<>>
    IN IF _isConnectedToAnyEnv
       THEN IF agentSyncRaises
            THEN [identifiers |-> ids, syncs |-> syncs, keyCreated |-> noKey,
                  syncStarted |-> FALSE,
                  out |-> keyOut \o <<Msg("Synchronizing")>>
                          \o _printCannotSyncSinceNotConnectedEnvMessage]
            ELSE [identifiers |-> ids, syncs |-> agentSync(li, postSync),
                  keyCreated |-> noKey, syncStarted |-> TRUE,
                  out |-> keyOut \o <<Msg("Synchronizing")>>]
       ELSE [identifiers |-> ids, syncs |-> syncs, keyCreated |-> noKey,
             syncStarted |-> FALSE,
             out |-> keyOut \o (IF activeEnv = None
                                THEN _printCannotSyncSinceNotConnectedEnvMessage
                                ELSE <<>>)]

\* nothing done after the lookup
NothingDone(out) ==
    [identifiers |-> identifiers, syncs |-> syncs, acceptLog |-> acceptLog,
     keyCreated |-> FALSE, syncStarted |-> FALSE, acceptSent |-> FALSE,
     out |-> out]

\* _syncLinkInvitation after the lookup gave li
_syncLinkInvitation(li) ==
    IF IsLink(li)
    THEN LET t == _getTargetEndpoint(li, "_printUsagePostSync")
         IN [identifiers |-> t.identifiers, syncs |-> t.syncs,
             acceptLog |-> acceptLog, keyCreated |-> t.keyCreated,
             syncStarted |-> t.syncStarted, acceptSent |-> FALSE,
             out |-> t.out]
    ELSE NothingDone(<<>>)

\* _acceptLinkInvitation, the link not being accepted yet
acceptNotYetAcceptedAlwaysSyncs(li) ==
    LET t == _getTargetEndpoint(li, "_acceptLinkPostSync")
    IN [identifiers |-> t.identifiers, syncs |-> t.syncs,
        acceptLog |-> acceptLog, keyCreated |-> t.keyCreated,
        syncStarted |-> t.syncStarted, acceptSent |-> FALSE, out |-> t.out]
acceptNotYetAccepted(li) ==
         LET notVerified ==
                 <<Msg("InvitationNotYetVerified")>>
                 \o (IF linkLastSynced[li] = NeverSynced
                     THEN <<Msg("LinkNotYetSynchronized")>> ELSE <<>>)
         IN IF _isConnectedToAnyEnv
            THEN LET t == _getTargetEndpoint(li, "_acceptLinkPostSync")
                 IN [identifiers |-> t.identifiers, syncs |-> t.syncs,
                     acceptLog |-> acceptLog, keyCreated |-> t.keyCreated,
                     syncStarted |-> t.syncStarted, acceptSent |-> FALSE,
                     out |-> notVerified \o <<Msg("AttemptingToSync")>> \o t.out]
            ELSE IF isRemoteEndpointAvailable(remoteEndPoint[li])
            THEN [identifiers |-> identifiers, syncs |-> syncs,
                  acceptLog |-> _sendAcceptInviteToTargetEndpoint(acceptLog,
                                    AcceptCall(li, remoteEndPoint[li], "direct", 0)),
                  keyCreated |-> FALSE, syncStarted |-> FALSE,
                  acceptSent |-> TRUE, out |-> notVerified]
            ELSE NothingDone(notVerified
                             \o <<Msg("InvitationAcceptanceAborted")>>
                             \o _printNotConnectedEnvMessage)

_printLinkAlreadyExcepted(li) == <<Notice("AlreadyAccepted", <<>>, li)>>

\* _acceptLinkInvitation after the lookup gave li
_acceptLinkInvitationNoAcceptedCheck(li) ==
    IF ~IsLink(li) THEN NothingDone(<<>>) ELSE acceptNotYetAccepted(li)
_acceptLinkInvitation(li) ==
    IF ~IsLink(li) THEN NothingDone(<<>>)
    ELSE IF isAccepted[li] THEN NothingDone(_printLinkAlreadyExcepted(li))
    ELSE acceptNotYetAccepted(li)

\* the continuations of a synchronization; ep is the link's endpoint when
\* the continuation runs, i the synchronization it belongs to
_printUsagePostSync(li) ==
    [acceptLog |-> acceptLog, out |-> <<Notice("ShowAndAcceptUsage", <<>>, li)>>]

_acceptLinkPostSyncNoEndpointCheck(li, ep, i) ==
    [acceptLog |-> _sendAcceptInviteToTargetEndpoint(acceptLog,
                       AcceptCall(li, ep, "postSync", i)),
     out |-> <<>>]
_acceptLinkPostSync(li, ep, i) ==
    IF isRemoteEndpointAvailable(ep)
    THEN [acceptLog |-> _sendAcceptInviteToTargetEndpoint(acceptLog,
                            AcceptCall(li, ep, "postSync", i)),
          out |-> <<>>]
    ELSE [acceptLog |-> acceptLog,
          out |-> <<Notice("RemoteEndpointNotFound", <<>>, li)>>]

postSyncCall(postSync, li, ep, i) ==
    IF postSync = "_acceptLinkPostSync"
    THEN _acceptLinkPostSync(li, ep, i)
    ELSE _printUsagePostSync(li)

_syncLinkPostEndPointRetrievalIgnoringErr(postSync, li, ep, i, err) ==
    LET r == postSyncCall(postSync, li, ep, i)
    IN [invoked |-> TRUE, acceptLog |-> r.acceptLog, out |-> r.out]
_syncLinkPostEndPointRetrieval(postSync, li, ep, i, err) ==
    IF err /= None
    THEN [invoked |-> FALSE, acceptLog |-> acceptLog,
          out |-> <<Notice("SyncError", <<>>, li)>>]
    ELSE LET r == postSyncCall(postSync, li, ep, i)
         IN [invoked |-> TRUE, acceptLog |-> r.acceptLog, out |-> r.out]

IsDirect(call) == call.via = "direct"

\* a sync / accept command: the lookup, then d(li), what the handler does
\* with the link the lookup gave
LinkCommand(op, raw, r, d) ==
    /\ cmd = NoCmd
    /\ Len(syncs) + Len(SelectSeq(acceptLog, IsDirect)) < MaxLinkCmds
    /\ cmd' = CmdRecord(op, raw, removeSpecialChars(raw),
                        [li |-> r.li, out |-> r.out \o d.out])
    /\ identifiers' = d.identifiers
    /\ syncs' = d.syncs
    /\ acceptLog' = d.acceptLog
    /\ effects' = [connected |-> _isConnectedToAnyEnv, env |-> activeEnv,
                   keyCreated |-> d.keyCreated, syncStarted |-> d.syncStarted,
                   acceptSent |-> d.acceptSent]
    /\ UNCHANGED <<links, isAccepted, remoteEndPoint, linkLastSynced,
                   activeEnv, envVars, hasSufficientConnections>>
    /\ UNCHANGED <<corrVars, ctxVars>>

_syncLink(raw) ==
    LET r == _getOneLinkForFurtherProcessing(removeSpecialChars(raw))
    IN LinkCommand("sync", raw, r, _syncLinkInvitation(r.li))

_acceptInvitationLink(raw) ==
    LET r == _getOneLinkForFurtherProcessing(removeSpecialChars(raw))
    IN LinkCommand("accept", raw, r, _acceptLinkInvitation(r.li))

\* the sync usage printed for a link
_printSyncLinkUsage(li) == <<Notice("SyncLinkUsage", <<>>, li)>>

\* the agent is pinged whether or not the link carries an endpoint
pingTargetWithoutEndpointTest(linkName) ==
    LET r == _getOneLinkForFurtherProcessing(linkName)
    IN IF IsLink(r.li)
       THEN [li |-> r.li, out |-> r.out,
             sent |-> <<[op |-> "pingToEndpoint", link |-> r.li,
                         endpoint |-> remoteEndPoint[r.li]]>>]
       ELSE [li |-> r.li, out |-> r.out, sent |-> <<>>]

\* what ping prints and asks of the agent
pingTarget(linkName) ==
    LET r == _getOneLinkForFurtherProcessing(linkName)
    IN IF IsLink(r.li)
       THEN IF isRemoteEndpointAvailable(remoteEndPoint[r.li])
            THEN [li |-> r.li, out |-> r.out,
                  sent |-> <<[op |-> "pingToEndpoint", link |-> r.li,
                              endpoint |-> remoteEndPoint[r.li]]>>]
            ELSE [li |-> r.li,
                  out |-> r.out \o <<Msg("PleaseSyncFirstToGetTargetEndpoint")>>
                              \o _printSyncLinkUsage(r.li),
                  sent |-> <<>>]
       ELSE [li |-> r.li, out |-> r.out, sent |-> <<>>]

\* ping <name>
_pingTarget(raw) ==
    LET linkName == removeSpecialChars(raw)
        r == pingTarget(linkName)
    IN /\ cmd = NoCmd
       /\ cmd' = CmdRecord("ping", raw, linkName, [li |-> r.li, out |-> r.out])
       /\ sent' = r.sent
       /\ UNCHANGED <<links, isAccepted, effects>>
       /\ UNCHANGED <<corrVars, lifeVars>>
       /\ UNCHANGED <<curContext, claimProofReqAttrs, proofs, resolved, claimShows>>

\* the agent finished synchronization i: it resolved endpoint ep for the
\* link (None: the ledger holds none), stamped the link and called
\* doneCallback(reply, None)
AgentSyncSucceeds(i, ep) ==
    /\ i \in 1..Len(syncs)
    /\ syncs[i].state = "pending"
    /\ LET li == syncs[i].name
           newEp == IF ep = None THEN remoteEndPoint[li] ELSE ep
           c == _syncLinkPostEndPointRetrieval(syncs[i].postSync, li, newEp,
                                               i, None)
       IN /\ remoteEndPoint' = [remoteEndPoint EXCEPT ![li] = newEp]
          /\ linkLastSynced' = [linkLastSynced EXCEPT ![li] = i]
          /\ syncs' = [syncs EXCEPT ![i].state = "ok",
                                    ![i].invoked = c.invoked, ![i].out = c.out]
          /\ acceptLog' = c.acceptLog
    /\ UNCHANGED <<links, isAccepted, cmd, effects, identifiers, activeEnv, envVars,
                   hasSufficientConnections>>
    /\ UNCHANGED <<corrVars, ctxVars>>

\* the agent could not synchronize: doneCallback(None, err), link untouched
AgentSyncFails(i, err) ==
    /\ i \in 1..Len(syncs)
    /\ syncs[i].state = "pending"
    /\ LET li == syncs[i].name
           c == _syncLinkPostEndPointRetrieval(syncs[i].postSync, li,
                                               remoteEndPoint[li], i, err)
       IN /\ syncs' = [syncs EXCEPT ![i].state = "err",
                                    ![i].invoked = c.invoked, ![i].out = c.out]
          /\ acceptLog' = c.acceptLog
    /\ UNCHANGED <<links, isAccepted, cmd, effects, remoteEndPoint,
                   linkLastSynced, identifiers, activeEnv, envVars,
                   hasSufficientConnections>>
    /\ UNCHANGED <<corrVars, ctxVars>>

\* the other party answered acceptInvitation call j: the link is accepted
AgentAcceptCompletes(j) ==
    /\ j \in 1..Len(acceptLog)
    /\ ~acceptLog[j].done
    /\ acceptLog' = [acceptLog EXCEPT ![j].done = TRUE]
    /\ isAccepted' = [isAccepted EXCEPT ![acceptLog[j].name] = TRUE]
    /\ UNCHANGED <<links, cmd, effects, remoteEndPoint, linkLastSynced,
                   identifiers, activeEnv, envVars, hasSufficientConnections, syncs>>
    /\ UNCHANGED <<corrVars, ctxVars>>

\* connect <env> while connected to none (no keyring saved for env)
_connectTo ==
    /\ activeEnv = None
    /\ activeEnv' = "test"
    /\ hasSufficientConnections' = FALSE
    /\ UNCHANGED <<links, isAccepted, cmd, effects, remoteEndPoint,
                   linkLastSynced, identifiers, syncs, acceptLog, envVars>>
    /\ UNCHANGED <<corrVars, ctxVars>>

\* the client reaches, or loses, enough nodes of the pool
ClientConnectionChanges ==
    /\ activeEnv /= None
    /\ hasSufficientConnections' = ~hasSufficientConnections
    /\ UNCHANGED <<links, isAccepted, cmd, effects, remoteEndPoint,
                   linkLastSynced, identifiers, activeEnv, envVars, syncs, acceptLog>>
    /\ UNCHANGED <<corrVars, ctxVars>>

-----------------------------------------------------------------------------
(* Environments: connect, disconnect and the guard of the ledger commands *)

\* _printNotConnectedEnvMessage() with its default prefix
_printNotConnectedEnvMessageDefault ==
    <<Msg("NotConnectedToSovrinPleaseConnect"), Msg("ConnectUsage")>>

\* self.envs = self.config.ENVS, and the names given to connect
Envs == {"test", "live"}
EnvNames == Envs \cup {"xyz"}

\* a wallet is known here by the context it was created or restored in
NoEnvContext == "NoEnv"
currentContext(env) == IF env = None THEN NoEnvContext ELSE env

\* Cli.hasAnyKey: the active wallet exists and holds an identifier
hasAnyKey == activeWallet /= None /\ identifiers > 0

\* Cli.checkIfWalletBelongsToCurrentContext(self._activeWallet)
checkIfWalletBelongsToCurrentContext(wallet, env) ==
    wallet /= None /\ wallet = currentContext(env)

\* the environment already active is accepted again
canConnectToEnvAgain(envName, isfile) ==
    IF envName \notin Envs THEN "UnknownEnvironment"
    ELSE IF ~isfile THEN "DoNotHaveInformationToConnectTo"
    ELSE None

\* canConnectToEnv(envName): the error to print, or None; isfile is
\* os.path.isfile of the environment's pool ledger
canConnectToEnv(envName, isfile) ==
    IF envName = activeEnv THEN "AlreadyConnectedTo"
    ELSE IF envName \notin Envs THEN "UnknownEnvironment"
    ELSE IF ~isfile THEN "DoNotHaveInformationToConnectTo"
    ELSE None

\* currPromptText.replace("@" + oldEnv, ""), on the environment part
replaceEnv(promptText, oldEnv) ==
    IF oldEnv /= None /\ promptText = oldEnv THEN None ELSE promptText

\* _setPrompt(promptText) with env the active environment
_setPrompt(env, promptText) ==
    IF env /= None /\ promptText /= env THEN env ELSE promptText

\* the session as _disconnectFromCurrentEnv and _connectTo read and write it
Session ==
    [activeEnv |-> activeEnv, activeWallet |-> activeWallet,
     activeClient |-> activeClient, promptEnv |-> promptEnv,
     identifiers |-> identifiers,
     hasSufficientConnections |-> hasSufficientConnections, out |-> <<>>]

\* _disconnectFromCurrentEnv(toConnectToNewEnv); restore is whether
\* restoreLastActiveWallet finds a wallet saved outside any environment
_disconnectFromCurrentEnv(s, toConnectToNewEnv, restore) ==
    LET oldEnv == s.activeEnv
        wallet == IF toConnectToNewEnv = None /\ restore
                  THEN NoEnvContext ELSE None
    IN IF oldEnv = None /\ toConnectToNewEnv = None
       THEN [s EXCEPT !.out = <<Msg("NotConnectedToAnyEnvironment")>>]
       ELSE [activeEnv |-> None,
             activeWallet |-> wallet,
             activeClient |-> NoClient,
             promptEnv |-> _setPrompt(None, replaceEnv(s.promptEnv, oldEnv)),
             identifiers |-> IF wallet = None THEN 0 ELSE 1,
             hasSufficientConnections |-> FALSE,
             out |-> IF toConnectToNewEnv = None
                     THEN <<Msg("Disconnecting"), Msg("Disconnected")>>
                     ELSE <<>>]

\* ensureClientConnected: n is the connect the notice is printed for
ensureClientConnected(connected, checks, notices, n) ==
    IF connected
    THEN [checks |-> checks, notices |-> [notices EXCEPT ![n] = @ + 1],
          out |-> <<Msg("ConnectedTo")>>]
    ELSE [checks |-> checks + 1, notices |-> notices, out |-> <<>>]

\* disconnect
_disconnect(restore) ==
    LET d == _disconnectFromCurrentEnv(Session, None, restore)
    IN /\ cmd = NoCmd
       /\ cmd' = [NoCmd EXCEPT !.op = "disconnect", !.out = d.out]
       /\ activeEnv' = d.activeEnv
       /\ activeWallet' = d.activeWallet
       /\ activeClient' = d.activeClient
       /\ promptEnv' = d.promptEnv
       /\ identifiers' = d.identifiers
       /\ hasSufficientConnections' = d.hasSufficientConnections
       /\ UNCHANGED <<links, isAccepted, effects, remoteEndPoint, linkLastSynced,
                      syncs, acceptLog, connects, connChecks, connNotices>>
       /\ UNCHANGED <<corrVars, ctxVars>>

\* connect <envName>; nodeReg is whether the node registry is filled, and
\* isAnyWalletExistsForNewEnv whether a wallet file exists for the environment
_connectToEnv(envName, isfile, nodeReg, isAnyWalletExistsForNewEnv) ==
    LET envError == canConnectToEnv(envName, isfile)
        oldEnv == activeEnv
        d == IF oldEnv /= None \/ isAnyWalletExistsForNewEnv
             THEN _disconnectFromCurrentEnv(Session, envName, FALSE)
             ELSE Session
        wallet == IF isAnyWalletExistsForNewEnv THEN envName ELSE d.activeWallet
        built == d.activeClient = NoClient
        warning == IF wallet /= None
                      /\ ~checkIfWalletBelongsToCurrentContext(wallet, envName)
                   THEN <<Msg("WalletContextMismatch"),
                          Msg("ChangesWontBePersisted")>>
                   ELSE <<>>
        connected == IF built THEN FALSE ELSE d.hasSufficientConnections
        e == ensureClientConnected(connected, connChecks, connNotices,
                                   connects + 1)
    IN /\ cmd = NoCmd
       /\ IF envError /= None
          THEN /\ cmd' = [NoCmd EXCEPT !.op = "connect", !.raw = envName,
                            !.out = <<Msg(envError), Msg("ConnectUsage")>>]
               /\ UNCHANGED <<activeEnv, activeWallet, activeClient, promptEnv,
                              identifiers, hasSufficientConnections, connects,
                              connChecks, connNotices>>
          ELSE IF ~nodeReg
          THEN /\ cmd' = [NoCmd EXCEPT !.op = "connect", !.raw = envName,
                            !.out = <<Msg("GenesisTransactionsNotFound")>>]
               /\ UNCHANGED <<activeEnv, activeWallet, activeClient, promptEnv,
                              identifiers, hasSufficientConnections, connects,
                              connChecks, connNotices>>
          ELSE /\ connects < MaxConnects
               /\ cmd' = [NoCmd EXCEPT !.op = "connect", !.raw = envName,
                            !.out = d.out \o warning
                                        \o <<Msg("ConnectingTo")>> \o e.out]
               /\ activeEnv' = envName
               /\ promptEnv' = _setPrompt(envName, replaceEnv(d.promptEnv, oldEnv))
               /\ activeWallet' = wallet
               /\ identifiers' = IF isAnyWalletExistsForNewEnv THEN 1
                                 ELSE d.identifiers
               /\ activeClient' = IF built THEN connects + 1 ELSE d.activeClient
               /\ hasSufficientConnections' = connected
               /\ connects' = connects + 1
               /\ connChecks' = e.checks
               /\ connNotices' = e.notices
       /\ UNCHANGED <<links, isAccepted, effects, remoteEndPoint, linkLastSynced,
                      syncs, acceptLog>>
       /\ UNCHANGED <<corrVars, ctxVars>>

\* the event loop runs an ensureClientConnected that call_later scheduled
RunConnCheck ==
    LET e == ensureClientConnected(_isConnectedToAnyEnv, connChecks - 1,
                                   connNotices, connects)
    IN /\ connChecks > 0
       /\ connChecks' = e.checks
       /\ connNotices' = e.notices
       /\ UNCHANGED <<links, isAccepted, cmd, effects, remoteEndPoint,
                      linkLastSynced, identifiers, activeEnv,
                      hasSufficientConnections, syncs, acceptLog, activeWallet,
                      activeClient, promptEnv, connects>>
       /\ UNCHANGED <<corrVars, ctxVars>>

\* new key: the wallet, created in the current context if there is none,
\* gets its first identifier
NewKey ==
    /\ cmd = NoCmd
    /\ ~hasAnyKey
    /\ cmd' = [NoCmd EXCEPT !.op = "newKey"]
    /\ activeWallet' = IF activeWallet = None THEN currentContext(activeEnv)
                       ELSE activeWallet
    /\ identifiers' = 1
    /\ UNCHANGED <<links, isAccepted, effects, remoteEndPoint, linkLastSynced,
                   activeEnv, hasSufficientConnections, syncs, acceptLog,
                   activeClient, promptEnv, connects, connChecks, connNotices>>
    /\ UNCHANGED <<corrVars, ctxVars>>

\* canMakeSovrinRequest: whether the command may go on, and what is printed
canMakeSovrinRequest ==
    IF ~hasAnyKey THEN [ok |-> FALSE, out |-> <<Msg("NoKeyPresent")>>]
    ELSE IF activeEnv = None
    THEN [ok |-> FALSE, out |-> _printNotConnectedEnvMessageDefault]
    ELSE IF ~checkIfWalletBelongsToCurrentContext(activeWallet, activeEnv)
    THEN [ok |-> FALSE, out |-> <<Msg("WalletContextMismatch")>>]
    ELSE [ok |-> TRUE, out |-> <<>>]

\* a ledger command: op is the command, raises whether parsing its arguments
\* failed, and obj, clbk what it submits and how it continues
LedgerCommand(op, can, raises, notice, obj, clbk) ==
    /\ cmd = NoCmd
    /\ cmd' = [NoCmd EXCEPT
                 !.op = op,
                 !.out = can.out \o (IF ~can.ok THEN <<>>
                                     ELSE IF raises THEN <<Msg("Raised")>>
                                     ELSE <<Msg(notice)>>)]
    /\ IF can.ok /\ ~raises THEN submitReqs(obj, clbk) ELSE UNCHANGED corrVars
    /\ UNCHANGED <<links, isAccepted, effects>>
    /\ UNCHANGED <<lifeVars, ctxVars>>

\* send NYM
_sendNymAction ==
    LedgerCommand("sendNym", canMakeSovrinRequest, FALSE, "AddingNym",
                  "SponsoredIdentity", "addNymOut")

\* send ATTRIB; encRaises is ast.literal_eval of the enc argument raising
_sendAttribAction(encRaises) ==
    LedgerCommand("sendAttrib", canMakeSovrinRequest, encRaises,
                  "AddingAttributes", "Attribute", "addAttribOut")

\* send NODE; dataRaises is ast.literal_eval of the data raising
_sendNodeAction(dataRaises) ==
    LedgerCommand("sendNode", canMakeSovrinRequest, dataRaises,
                  "SendingNodeRequest", "Node", "sendNodeOut")

\* send ISSUER_KEY ref=<reference>: schemaFound is whether issuer.genKeys
\* finds the schema (it raises SchemaNotFound otherwise), keyFetched whether
\* wallet.getPublicKey returns a key (it raises otherwise)
sendIssuerKey(can, schemaFound, keyFetched) ==
    IF ~can.ok THEN [out |-> can.out, sent |-> <<>>]
    ELSE [out |-> (IF schemaFound THEN <<>>
                   ELSE <<Msg("ReferenceNotFound")>>)
                  \o (IF keyFetched THEN <<Msg("IssuerKeyPublished")>>
                      ELSE <<Msg("Raised")>>),
          sent |-> <<[op |-> "genKeys"], [op |-> "getPublicKey"]>>]

_sendIssuerKeyAction(schemaFound, keyFetched) ==
    LET r == sendIssuerKey(canMakeSovrinRequest, schemaFound, keyFetched)
    IN /\ cmd = NoCmd
       /\ cmd' = [NoCmd EXCEPT !.op = "sendIssuerKey", !.raw = schemaFound,
                    !.out = r.out]
       /\ sent' = r.sent
       /\ UNCHANGED <<links, isAccepted, effects>>
       /\ UNCHANGED <<corrVars, lifeVars>>
       /\ UNCHANGED <<curContext, claimProofReqAttrs, proofs, resolved, claimShows>>

\* client <name> add ...: handled is what Cli._clientCommand returned, known
\* whether the name is in self.clients. _addNym is called without a guard;
\* without a client (submitReqs of the DummyClient returns None) or without a
\* key to sign with, it raises before anything is submitted
_clientCommand(handled, known, action) ==
    IF handled \/ (known /\ action /= "add")
    THEN LedgerCommand("client", [ok |-> FALSE, out |-> <<>>], FALSE, "",
                       None, NoClbk)
    ELSE IF ~known
    THEN LedgerCommand("client", [ok |-> FALSE,
                                  out |-> <<Msg("CannotAddANewUser")>>],
                       FALSE, "", None, NoClbk)
    ELSE LedgerCommand("client", [ok |-> TRUE, out |-> <<>>],
                       activeClient = NoClient \/ ~hasAnyKey,
                       "AddingNym", "SponsoredIdentity", "addNymOut")

-----------------------------------------------------------------------------
(* Claim request context: show claim request and set *)

AttrNames == {"first_name", "ssn"}
AttrValues == {"x", "y"}

\* the claim requests of the wallet's links, link by link: requests are
\* referenced, never copied, so one is the same as another when it is the
\* request of the same name of the same link
ClaimReqWallet ==
    << [owner |-> <<"a">>, name |-> <<"a", "b">>],
       [owner |-> <<"A", "a">>, name |-> <<"a", "a">>] >>

\* ClaimProofRequest.attributes as the invitations give them: the value is
\* a default, or None where the request only names the attribute
InitialClaimProofReqAttrs ==
    [cr \in {ClaimReqWallet[i] : i \in 1..Len(ClaimReqWallet)} |->
        IF cr.name = <<"a", "b">>
        THEN [first_name |-> "string", ssn |-> None]
        ELSE [first_name |-> None]]

\* Wallet.getMatchingLinksWithClaimReq(claimReqName, linkName): the (link,
\* claim request) pairs whose request name contains the query and, when a
\* link name is given, whose link name contains it, letter case ignored
IsMatchingClaimReq(claimReqName, cr) == isSubstring(lower(claimReqName), lower(cr.name))

getMatchingLinksWithClaimReq(claimReqName, linkName) ==
    LET Matches(cr) ==
            /\ IsMatchingClaimReq(claimReqName, cr)
            /\ (linkName = NoLink \/ isSubstring(lower(linkName), lower(cr.owner)))
    IN SelectSeq(ClaimReqWallet, Matches)

_printNoClaimReqFoundMsg == <<Msg("NoMatchingClaimReqFound")>>

_printMoreThanOneLinkFoundForRequest(requestedName, linkNames) ==
    <<Notice("MoreThanOneLinkMatches", requestedName, NoLink)>>
        \o [i \in 1..Len(linkNames) |-> Notice("LinkName", <<>>, linkNames[i])]

\* of several matching pairs the first is taken
_getOneLinkAndClaimReqFirstOfSeveral(claimReqName, linkName) ==
    LET matchingLinksWithClaimReq ==
            getMatchingLinksWithClaimReq(claimReqName, linkName)
    IN IF Len(matchingLinksWithClaimReq) = 0
       THEN [link |-> NoLink, claimReq |-> NoClaimReq,
             out |-> _printNoClaimReqFoundMsg]
       ELSE [link |-> matchingLinksWithClaimReq[1].owner,
             claimReq |-> matchingLinksWithClaimReq[1], out |-> <<>>]

\* the one (link, claim request) pair matching the name, or (None, None)
_getOneLinkAndClaimReq(claimReqName, linkName) ==
    LET matchingLinksWithClaimReq ==
            getMatchingLinksWithClaimReq(claimReqName, linkName)
        linkNames == [i \in 1..Len(matchingLinksWithClaimReq) |->
                         matchingLinksWithClaimReq[i].owner]
    IN IF Len(matchingLinksWithClaimReq) = 0
       THEN [link |-> NoLink, claimReq |-> NoClaimReq,
             out |-> _printNoClaimReqFoundMsg]
       ELSE IF Len(matchingLinksWithClaimReq) > 1
       THEN [link |-> NoLink, claimReq |-> NoClaimReq,
             out |-> _printMoreThanOneLinkFoundForRequest(claimReqName, linkNames)]
       ELSE [link |-> matchingLinksWithClaimReq[1].owner,
             claimReq |-> matchingLinksWithClaimReq[1], out |-> <<>>]

\* the context is replaced, and its attributes forgotten, whatever it held
setContextAlwaysFresh(ctx, matchingLink, claimReq) ==
    [link |-> matchingLink, claimReq |-> claimReq, attrs |-> NoAttrs]

\* the context after show claim request found matchingLink and claimReq
setContext(ctx, matchingLink, claimReq) ==
    IF matchingLink = ctx.link /\ claimReq = ctx.claimReq
    THEN ctx
    ELSE [link |-> matchingLink, claimReq |-> claimReq, attrs |-> NoAttrs]

\* the attribute is stored whether a claim request is current or not
setAttributeWithoutContext(ctx, attrName, attrValue) ==
    [ctx |-> [ctx EXCEPT !.attrs = (attrName :> attrValue) @@ @], out |-> <<>>]

\* a value already stored under the name is kept
setAttributeKeepingFirst(ctx, attrName, attrValue) ==
    IF ctx.claimReq /= NoClaimReq
    THEN [ctx |-> [ctx EXCEPT !.attrs = @ @@ (attrName :> attrValue)],
          out |-> <<>>]
    ELSE [ctx |-> ctx,
          out |-> <<Msg("NoContext"), Msg("ShowClaimReqUsage")>>]

\* the context after set attrName to attrValue, and what is printed
setAttribute(ctx, attrName, attrValue) ==
    IF ctx.claimReq /= NoClaimReq
    THEN [ctx |-> [ctx EXCEPT !.attrs = (attrName :> attrValue) @@ @],
          out |-> <<>>]
    ELSE [ctx |-> ctx,
          out |-> <<Msg("NoContext"), Msg("ShowClaimReqUsage")>>]

\* a scheduled _showMatchingClaimProof holds the claim request and the dict
\* of self attested attributes it was given: the dict of the context while
\* that context lasts (live), and what that dict held when the context was
\* replaced afterwards
ProofRun(claimReq) == [claimReq |-> claimReq, live |-> TRUE, attrs |-> NoAttrs]

Detached(ps, attrs) ==
    [i \in 1..Len(ps) |->
        IF ps[i].live THEN [ps[i] EXCEPT !.live = FALSE, !.attrs = attrs]
        ELSE ps[i]]

\* show claim request <name>
_showClaimReq(raw) ==
    LET claimReqName == removeSpecialChars(raw)
        r == _getOneLinkAndClaimReq(claimReqName, NoLink)
        found == r.link /= NoLink /\ r.claimReq /= NoClaimReq
        ctx == setContext(curContext, r.link, r.claimReq)
        kept == ctx.link = curContext.link /\ ctx.claimReq = curContext.claimReq
    IN /\ cmd = NoCmd
       /\ found => Len(proofs) < MaxProofs
       /\ cmd' = [op |-> "showClaimReq", raw |-> raw, query |-> claimReqName,
                  found |-> getMatchingLinksWithClaimReq(claimReqName, NoLink),
                  exact |-> EmptyDict, likely |-> EmptyDict, li |-> r.link,
                  out |-> IF found
                          THEN <<Notice("FoundClaimReq", r.claimReq.name, r.link)>>
                          ELSE r.out]
       /\ curContext' = IF found THEN ctx ELSE curContext
       /\ proofs' = IF ~found THEN proofs
                    ELSE Append(IF kept THEN proofs
                                ELSE Detached(proofs, curContext.attrs),
                                ProofRun(r.claimReq))
       /\ UNCHANGED <<links, isAccepted, effects>>
       /\ UNCHANGED <<corrVars, lifeVars>>
       /\ UNCHANGED <<claimProofReqAttrs, resolved, sent, claimShows>>

\* set <attr-name> to <attr-value>
_setAttr(attrName, attrValue) ==
    LET r == setAttribute(curContext, attrName, attrValue)
    IN /\ cmd = NoCmd
       /\ cmd' = [op |-> "setAttr", raw |-> <<attrName, attrValue>>,
                  query |-> <<>>, found |-> <<>>, exact |-> EmptyDict,
                  likely |-> EmptyDict, li |-> NoLink, out |-> r.out]
       /\ curContext' = r.ctx
       /\ UNCHANGED <<links, isAccepted, effects>>
       /\ UNCHANGED <<corrVars, lifeVars>>
       /\ UNCHANGED <<claimProofReqAttrs, proofs, resolved, sent, claimShows>>

\* the claims the agent holds, as getMatchingRcvdClaimsAsync gives them: the
\* issued attributes of each
IssuedValue == "i"
IssuedAttrs ==
    UNION {[S -> {IssuedValue}] : S \in (SUBSET AttrNames) \ {{}}}

RECURSIVE SeqsUpTo(_, _)
SeqsUpTo(S, n) ==
    IF n = 0 THEN {<<>>}
    ELSE LET shorter == SeqsUpTo(S, n - 1)
         IN shorter \cup {Append(q, x) : q \in shorter, x \in S}

RcvdClaims == SeqsUpTo(IssuedAttrs, MaxRcvdClaims)

\* a received claim matches a request when it carries one of its attributes
IsMatchingRcvdClaim(attributes, issuedAttrs) ==
    DOMAIN issuedAttrs \cap DOMAIN attributes /= {}

\* the inner loop of _showMatchingClaimProof for attribute k: v is the value
\* the outer loop read, cur is attributesWithValue[k]
RECURSIVE resolveAttr(_, _, _, _, _)
resolveAttr(k, v, cur, claims, selfAttestedAttrs) ==
    IF claims = <<>> THEN cur
    ELSE LET issuedAttrs == Head(claims)
             defaultValue == IF cur /= None THEN cur ELSE v
             next == IF k \in DOMAIN issuedAttrs THEN issuedAttrs[k]
                     ELSE IF k \in DOMAIN selfAttestedAttrs
                          THEN selfAttestedAttrs[k]
                          ELSE defaultValue
         IN resolveAttr(k, v, next, Tail(claims), selfAttestedAttrs)

\* claimProofReq.attributes after the loops of _showMatchingClaimProof
attributesWithValue(attributes, selfAttestedAttrs, claims) ==
    [k \in DOMAIN attributes |->
        resolveAttr(k, attributes[k], attributes[k], claims, selfAttestedAttrs)]

\* the attributes printed with "(verifiable)": those of every matching claim
verifiableAttrs(claims) == UNION {DOMAIN claims[i] : i \in 1..Len(claims)}

RemoveAt(q, i) == SubSeq(q, 1, i - 1) \o SubSeq(q, i + 1, Len(q))

\* the i-th scheduled _showMatchingClaimProof runs, the agent having found
\* the received claims given
_showMatchingClaimProof(i, claims) ==
    /\ cmd = NoCmd
    /\ i \in 1..Len(proofs)
    /\ LET claimProofReq == proofs[i].claimReq
           attributes == claimProofReqAttrs[claimProofReq]
           selfAttestedAttrs == IF proofs[i].live THEN curContext.attrs
                                ELSE proofs[i].attrs
           after == attributesWithValue(attributes, selfAttestedAttrs, claims)
       IN /\ \A j \in 1..Len(claims) : IsMatchingRcvdClaim(attributes, claims[j])
          /\ claimProofReqAttrs' = [claimProofReqAttrs EXCEPT ![claimProofReq] = after]
          /\ resolved' = [claimReq |-> claimProofReq, before |-> attributes,
                          selfAttestedAttrs |-> selfAttestedAttrs,
                          claims |-> claims, after |-> after,
                          verifiable |-> verifiableAttrs(claims)]
    /\ proofs' = RemoveAt(proofs, i)
    /\ cmd' = [NoCmd EXCEPT !.op = "showMatchingClaimProof",
                            !.query = proofs[i].claimReq.name,
                            !.li = proofs[i].claimReq.owner]
    /\ UNCHANGED <<links, isAccepted, effects, curContext, sent, claimShows>>
    /\ UNCHANGED <<corrVars, lifeVars>>

\* str.strip() of the blank
RECURSIVE lstrip(_)
lstrip(t) == IF t /= <<>> /\ Head(t) = " " THEN lstrip(Tail(t)) ELSE t
RECURSIVE rstrip(_)
rstrip(t) ==
    IF t /= <<>> /\ t[Len(t)] = " " THEN rstrip(SubSeq(t, 1, Len(t) - 1)) ELSE t
strip(t) == rstrip(lstrip(t))

\* send claim <claim-name> to <link-name>
_sendClaim(rawClaimName, rawLinkName) ==
    LET claimName == strip(rawClaimName)
        linkName == strip(rawLinkName)
        r == _getOneLinkAndClaimReq(claimName, linkName)
        found == r.link /= NoLink /\ r.claimReq /= NoClaimReq
    IN /\ cmd = NoCmd
       /\ cmd' = [op |-> "sendClaim", raw |-> <<rawClaimName, rawLinkName>>,
                  query |-> claimName,
                  found |-> getMatchingLinksWithClaimReq(claimName, linkName),
                  exact |-> EmptyDict, likely |-> EmptyDict, li |-> r.link,
                  out |-> r.out]
       /\ sent' = IF found
                  THEN <<[op |-> "sendProof", link |-> r.link,
                          claimReq |-> r.claimReq,
                          attributes |-> claimProofReqAttrs[r.claimReq]]>>
                  ELSE <<>>
       /\ UNCHANGED <<links, isAccepted, effects>>
       /\ UNCHANGED <<corrVars, lifeVars>>
       /\ UNCHANGED <<curContext, claimProofReqAttrs, proofs, resolved, claimShows>>

\* the claims the links of the wallet offer (Link.availableClaims)
AvailableClaimWallet ==
    << [owner |-> <<"a">>, name |-> <<"a", "b">>],
       [owner |-> <<"A", "a">>, name |-> <<"a", "a">>] >>

\* Wallet.getMatchingLinksWithAvailableClaim(claimName): the (link, claim)
\* pairs whose claim name contains the query, letter case ignored
getMatchingLinksWithAvailableClaim(claimName) ==
    LET Matches(ac) == isSubstring(lower(claimName), lower(ac.name))
    IN SelectSeq(AvailableClaimWallet, Matches)

_printNoClaimFoundMsg == <<Msg("NoMatchingClaimFound")>>

\* the one (link, available claim) pair matching the name, or (None, None)
_getOneLinkAndAvailableClaim(claimName, printMsgs) ==
    LET matchingLinksWithAvailableClaim ==
            getMatchingLinksWithAvailableClaim(claimName)
        linkNames == [i \in 1..Len(matchingLinksWithAvailableClaim) |->
                         matchingLinksWithAvailableClaim[i].owner]
    IN IF Len(matchingLinksWithAvailableClaim) = 0
       THEN [link |-> NoLink, claim |-> NoClaimReq,
             out |-> IF printMsgs THEN _printNoClaimFoundMsg ELSE <<>>]
       ELSE IF Len(matchingLinksWithAvailableClaim) > 1
       THEN [link |-> NoLink, claim |-> NoClaimReq,
             out |-> IF printMsgs
                     THEN _printMoreThanOneLinkFoundForRequest(claimName, linkNames)
                     ELSE <<>>]
       ELSE [link |-> matchingLinksWithAvailableClaim[1].owner,
             claim |-> matchingLinksWithAvailableClaim[1], out |-> <<>>]

\* the claim is requested without looking at the connection
reqClaimWhetherConnectedOrNot(claimName) ==
    LET r == _getOneLinkAndAvailableClaim(claimName, FALSE)
    IN IF r.link /= NoLink
       THEN [li |-> r.link,
             sent |-> <<[op |-> "sendReqClaim", link |-> r.link,
                         claim |-> r.claim]>>,
             out |-> <<Notice("FoundClaim", claimName, r.link),
                       Notice("RequestingClaim", r.claim.name, r.link)>>]
       ELSE [li |-> NoLink, sent |-> <<>>, out |-> _printNoClaimFoundMsg]

\* what request claim prints and asks of the agent
reqClaim(claimName) ==
    LET r == _getOneLinkAndAvailableClaim(claimName, FALSE)
        found == <<Notice("FoundClaim", claimName, r.link)>>
        expanding == IF isNotMatching(claimName, r.claim.name)
                     THEN <<Notice("Expanding", claimName, r.claim.name)>>
                     ELSE <<>>
    IN IF r.link /= NoLink
       THEN IF ~_isConnectedToAnyEnv
            THEN [li |-> r.link, sent |-> <<>>,
                  out |-> r.out \o expanding \o found
                              \o _printNotConnectedEnvMessageDefault]
            ELSE [li |-> r.link,
                  sent |-> <<[op |-> "sendReqClaim", link |-> r.link,
                              claim |-> r.claim]>>,
                  out |-> r.out \o expanding \o found
                              \o <<Notice("RequestingClaim", r.claim.name, r.link)>>]
       ELSE [li |-> NoLink, sent |-> <<>>, out |-> r.out \o _printNoClaimFoundMsg]

\* request claim <name>
_reqClaim(raw) ==
    LET claimName == removeSpecialChars(raw)
        r == reqClaim(claimName)
    IN /\ cmd = NoCmd
       /\ cmd' = [op |-> "reqClaim", raw |-> raw, query |-> claimName,
                  found |-> getMatchingLinksWithAvailableClaim(claimName),
                  exact |-> EmptyDict, likely |-> EmptyDict, li |-> r.li,
                  out |-> r.out]
       /\ sent' = r.sent
       /\ UNCHANGED <<links, isAccepted, effects>>
       /\ UNCHANGED <<corrVars, lifeVars>>
       /\ UNCHANGED <<curContext, claimProofReqAttrs, proofs, resolved, claimShows>>

\* show claim <name>: the lookup and the display are scheduled
_showClaim(raw) ==
    /\ cmd = NoCmd
    /\ Len(claimShows) < MaxProofs
    /\ cmd' = [NoCmd EXCEPT !.op = "showClaim", !.raw = raw,
                            !.query = removeSpecialChars(raw)]
    /\ claimShows' = Append(claimShows, removeSpecialChars(raw))
    /\ UNCHANGED <<links, isAccepted, effects>>
    /\ UNCHANGED <<corrVars, lifeVars>>
    /\ UNCHANGED <<curContext, claimProofReqAttrs, proofs, resolved, sent>>

\* the claims the agent has received or been offered, with their attributes
\* (None for an attribute of a claim not yet issued)
RcvdClaimPool ==
    << [owner |-> <<"a">>, name |-> <<"a", "b">>,
        attributes |-> [first_name |-> IssuedValue, ssn |-> IssuedValue]],
       [owner |-> <<"A", "a">>, name |-> <<"a", "a">>,
        attributes |-> [first_name |-> None]] >>

\* agent.getMatchingLinksWithReceivedClaimAsync(claimName)
getMatchingLinksWithReceivedClaimAsync(claimName) ==
    LET Matches(rc) == isSubstring(lower(claimName), lower(rc.name))
    IN SelectSeq(RcvdClaimPool, Matches)

NoRcvdClaim == [owner |-> NoLink, name |-> <<>>, attributes |-> NoAttrs]

\* the one (link, received claim, attributes) matching the name, or Nones
_getOneLinkAndReceivedClaim(claimName, printMsgs) ==
    LET matchingLinksWithRcvdClaim ==
            getMatchingLinksWithReceivedClaimAsync(claimName)
        linkNames == [i \in 1..Len(matchingLinksWithRcvdClaim) |->
                         matchingLinksWithRcvdClaim[i].owner]
    IN IF Len(matchingLinksWithRcvdClaim) = 0
       THEN [link |-> NoLink, rcvdClaim |-> NoRcvdClaim,
             out |-> IF printMsgs THEN _printNoClaimFoundMsg ELSE <<>>]
       ELSE IF Len(matchingLinksWithRcvdClaim) > 1
       THEN [link |-> NoLink, rcvdClaim |-> NoRcvdClaim,
             out |-> IF printMsgs
                     THEN _printMoreThanOneLinkFoundForRequest(claimName, linkNames)
                     ELSE <<>>]
       ELSE [link |-> matchingLinksWithRcvdClaim[1].owner,
             rcvdClaim |-> matchingLinksWithRcvdClaim[1], out |-> <<>>]

\* what the display of a received or available claim prints
showReceivedOrAvailableClaim(claimName) ==
    LET r == _getOneLinkAndReceivedClaim(claimName, TRUE)
        attributes == r.rcvdClaim.attributes
        issued == \A n \in DOMAIN attributes : attributes[n] /= None
    IN IF r.link /= NoLink
       THEN [li |-> r.link,
             out |-> r.out
                     \o <<Notice("FoundClaim", claimName, r.link),
                          Msg(IF issued THEN "StatusIssued" ELSE "StatusAvailable"),
                          Notice("NameVersion", claimName, NoLink),
                          Msg("Attributes")>>
                     \o <<Msg(IF issued THEN "Blank" ELSE "RequestClaimUsage")>>]
       ELSE [li |-> NoLink,
             out |-> r.out \o <<Msg("NoMatchingClaimFoundInAnyLinks")>>]

\* the i-th scheduled _showReceivedOrAvailableClaim runs
_showReceivedOrAvailableClaim(i) ==
    /\ cmd = NoCmd
    /\ i \in 1..Len(claimShows)
    /\ LET claimName == claimShows[i]
           r == showReceivedOrAvailableClaim(claimName)
       IN cmd' = [op |-> "showReceivedOrAvailableClaim", raw |-> <<>>,
                  query |-> claimName,
                  found |-> getMatchingLinksWithReceivedClaimAsync(claimName),
                  exact |-> EmptyDict, likely |-> EmptyDict, li |-> r.li,
                  out |-> r.out]
    /\ claimShows' = RemoveAt(claimShows, i)
    /\ UNCHANGED <<links, isAccepted, effects>>
    /\ UNCHANGED <<corrVars, lifeVars>>
    /\ UNCHANGED <<curContext, claimProofReqAttrs, proofs, resolved, sent>>

-----------------------------------------------------------------------------
(* Specifications *)

RECURSIVE DistinctSeqs(_, _)
DistinctSeqs(S, n) ==
    IF n = 0 THEN {<<>>}
    ELSE LET shorter == DistinctSeqs(S, n - 1)
         IN shorter \cup {Append(s, x) : s \in shorter, x \in S}

\* a wallet holds links of different names
Wallets ==
    {w \in DistinctSeqs(LinkNames, MaxLinks) :
        \A i, j \in 1..Len(w) : i /= j => w[i] /= w[j]}

InitLookupVars(w) ==
    /\ links = w
    /\ isAccepted = [n \in {w[i] : i \in 1..Len(w)} |-> FALSE]
    /\ cmd = NoCmd

\* links as loaded from invitation files: not synchronized, not accepted
InitLifeVars(w, eps, ids) ==
    /\ remoteEndPoint = eps
    /\ linkLastSynced = [n \in {w[i] : i \in 1..Len(w)} |-> NeverSynced]
    /\ identifiers = ids
    /\ activeEnv = None
    /\ hasSufficientConnections = FALSE
    /\ syncs = <<>>
    /\ acceptLog = <<>>
    /\ effects = NoEffects
    /\ activeWallet = None
    /\ activeClient = NoClient
    /\ promptEnv = None
    /\ connects = 0
    /\ connChecks = 0
    /\ connNotices = [n \in 1..MaxConnects |-> 0]

NoEndPoints(w) == [n \in {w[i] : i \in 1..Len(w)} |-> None]

InitCtxVars ==
    /\ curContext = NoContext
    /\ claimProofReqAttrs = InitialClaimProofReqAttrs
    /\ proofs = <<>>
    /\ resolved = NoResolve
    /\ sent = <<>>
    /\ claimShows = <<>>

InitCorrVars ==
    /\ submitted = {}
    /\ walletObjs = [k \in Keys |-> None]
    /\ reqKind = [k \in Keys |-> NoClbk]
    /\ replies = [k \in Keys |-> None]
    /\ errors = [k \in Keys |-> None]
    /\ scheduled = [k \in Keys |-> 0]
    /\ fired = [k \in Keys |-> 0]
    /\ contOut = [k \in Keys |-> <<>>]
    /\ polls = [k \in Keys |-> 0]
    /\ satPolls = [k \in Keys |-> 0]

\* link commands on any wallet of invitation links
InitLookup ==
    /\ \E w \in Wallets : InitLookupVars(w) /\ InitLifeVars(w, NoEndPoints(w), 0)
    /\ InitCorrVars
    /\ InitCtxVars

NextLookup ==
    \/ \E raw \in Queries : LinkLookup(raw)
    \/ \E raw \in Queries : _showLink(raw)
    \/ Prompt

SpecLookup == InitLookup /\ [][NextLookup]_vars

\* requests submitted by the ledger commands, their replies and the checks
InitCorr ==
    /\ InitLookupVars(<<>>)
    /\ InitLifeVars(<<>>, NoEndPoints(<<>>), 0)
    /\ InitCorrVars
    /\ InitCtxVars

NextCorr ==
    \/ _addNym
    \/ _addAttribToNym
    \/ \E k \in Keys : RunCheck(k)
    \/ \E k \in Keys : \E r \in Replies : ClientRecordsReply(k, r)
    \/ \E k \in Keys : \E e \in ErrorValues : ClientRecordsError(k, e)

SpecCorr == InitCorr /\ [][NextCorr]_vars

\* the same with every command that submits a ledger request
NextLedger ==
    \/ _getNym
    \/ _addNym
    \/ _addAttribToNym
    \/ _sendNodeTxn
    \/ _sendPoolUpgTxn
    \/ \E k \in Keys : RunCheck(k)
    \/ \E k \in Keys : \E r \in Replies : ClientRecordsReply(k, r)
    \/ \E k \in Keys : \E e \in ErrorValues : ClientRecordsError(k, e)

SpecLedger == InitCorr /\ [][NextLedger]_vars

\* the event loop runs every callback that call_later has scheduled once its
\* delay is over: a check that stays scheduled is eventually run
LoopFairness == \A k \in Keys : WF_vars(RunCheck(k))

\* every command that submits a ledger request, with replies only
NextSubmit ==
    \/ _getNym
    \/ _addNym
    \/ _addAttribToNym
    \/ _sendNodeTxn
    \/ _sendPoolUpgTxn
    \/ \E k \in Keys : RunCheck(k)
    \/ \E k \in Keys : \E r \in Replies : ClientRecordsReply(k, r)

SpecSubmit == InitCorr /\ [][NextSubmit]_vars

\* requests of one command, their replies and errors in any order
NextAwait ==
    \/ _addNym
    \/ \E k \in Keys : RunCheck(k)
    \/ \E k \in Keys : \E r \in Replies : ClientRecordsReply(k, r)
    \/ \E k \in Keys : \E e \in ErrorValues : ClientRecordsError(k, e)

SpecAwaitFair == InitCorr /\ [][NextAwait]_vars /\ LoopFairness

\* send POOL_UPGRADE with every combination of action, schedule and timeout
NextUpgrade ==
    \/ \E can \in BOOLEAN : \E action \in UpgradeActions :
           \E schedule \in Schedules : \E timeout \in Timeouts :
               _sendPoolUpgAction(can, action, schedule, timeout)
    \/ Prompt
    \/ \E k \in Keys : RunCheck(k)
    \/ \E k \in Keys : \E r \in Replies : ClientRecordsReply(k, r)
    \/ \E k \in Keys : \E e \in ErrorValues : ClientRecordsError(k, e)

SpecUpgrade == InitCorr /\ [][NextUpgrade]_vars

\* sync and accept commands on a wallet of two links, connected or not
LinkWallet == << <<"a">>, <<"A", "a">> >>
LinkQueries == Words
\* the keyring holds no key yet, or one
KeyCounts == 0..1

InitLink ==
    /\ InitLookupVars(LinkWallet)
    /\ \E eps \in [{LinkWallet[i] : i \in 1..Len(LinkWallet)}
                        -> {None, "EpLoaded"}] :
          \E ids \in KeyCounts : InitLifeVars(LinkWallet, eps, ids)
    /\ InitCorrVars
    /\ InitCtxVars

NextLink ==
    \/ \E raw \in LinkQueries : _syncLink(raw)
    \/ \E raw \in LinkQueries : _acceptInvitationLink(raw)
    \/ Prompt
    \/ \E i \in 1..MaxLinkCmds : \E ep \in {None, "EpResolved"} :
           AgentSyncSucceeds(i, ep)
    \/ \E i \in 1..MaxLinkCmds : \E err \in SyncErrors : AgentSyncFails(i, err)
    \/ \E j \in 1..MaxLinkCmds : AgentAcceptCompletes(j)
    \/ _connectTo
    \/ ClientConnectionChanges

SpecLink == InitLink /\ [][NextLink]_vars

\* ping on any wallet of links, each with an endpoint loaded or not
InitPing ==
    /\ \E w \in Wallets :
          /\ InitLookupVars(w)
          /\ \E eps \in [{w[i] : i \in 1..Len(w)} -> {None, "EpLoaded"}] :
                 InitLifeVars(w, eps, 1)
    /\ InitCorrVars
    /\ InitCtxVars

NextPing ==
    \/ \E raw \in Queries : _pingTarget(raw)
    \/ Prompt

SpecPing == InitPing /\ [][NextPing]_vars

\* show claim request and set, on a wallet whose links present claim requests
ClaimReqQueries ==
    {<<"a">>, <<"A">>, <<"b">>, <<"a", "a">>, <<"A", "B">>, <<"b", "a">>,
     <<DQUOTE, "a", "b", DQUOTE>>}

\* claim request name and link name given to send claim: the two requests,
\* a name padded with a blank, a link that does not present the request, and
\* a request name that two links present
SendClaimInputs ==
    {<< <<"a", "b">>, <<"a">> >>, << <<"a", "a">>, <<"A", "a">> >>,
     << <<" ", "b">>, <<"a">> >>, << <<"a", "b">>, <<"A", "a">> >>,
     << <<"a">>, <<"a">> >>}

\* claim names given to request claim and show claim: matching both
\* claims, one of them (exactly or not, bare or in quotes), or none
ClaimQueries ==
    {<<"a">>, <<"b">>, <<"a", "a">>, <<"b", "a">>, <<"A", "B">>,
     <<SQUOTE, "a", "a", SQUOTE>>}

InitContext ==
    /\ InitLookupVars(LinkWallet)
    /\ InitLifeVars(LinkWallet, NoEndPoints(LinkWallet), 0)
    /\ InitCorrVars
    /\ InitCtxVars

NextContext ==
    \/ \E raw \in ClaimReqQueries : _showClaimReq(raw)
    \/ \E a \in AttrNames : \E v \in AttrValues : _setAttr(a, v)
    \/ \E i \in 1..MaxProofs : \E claims \in RcvdClaims :
           _showMatchingClaimProof(i, claims)
    \/ \E t \in SendClaimInputs : _sendClaim(t[1], t[2])
    \/ \E raw \in ClaimQueries : _reqClaim(raw)
    \/ Prompt

SpecContext == InitContext /\ [][NextContext]_vars

\* request claim and show claim, connected or not
NextClaim ==
    \/ \E raw \in ClaimQueries : _reqClaim(raw)
    \/ \E raw \in ClaimQueries : _showClaim(raw)
    \/ \E i \in 1..MaxProofs : _showReceivedOrAvailableClaim(i)
    \/ Prompt
    \/ _connectTo
    \/ ClientConnectionChanges

SpecClaim == InitContext /\ [][NextClaim]_vars

\* connect and disconnect, the connection checks of the event loop, and the
\* commands that write to the ledger
NextEnv ==
    \/ \E envName \in EnvNames : \E isfile, nodeReg, walletExists \in BOOLEAN :
           _connectToEnv(envName, isfile, nodeReg, walletExists)
    \/ \E restore \in BOOLEAN : _disconnect(restore)
    \/ RunConnCheck
    \/ ClientConnectionChanges
    \/ NewKey
    \/ _sendNymAction
    \/ \E encRaises \in BOOLEAN : _sendAttribAction(encRaises)
    \/ \E dataRaises \in BOOLEAN : _sendNodeAction(dataRaises)
    \/ _sendPoolUpgAction(canMakeSovrinRequest.ok, START, "Parsable", "10")
    \/ \E handled, known \in BOOLEAN : \E action \in {"add", "new"} :
           _clientCommand(handled, known, action)
    \/ \E schemaFound, keyFetched \in BOOLEAN :
           _sendIssuerKeyAction(schemaFound, keyFetched)
    \/ Prompt

SpecEnv == InitCorr /\ [][NextEnv]_vars

-----------------------------------------------------------------------------
(* Properties of the request correlation, under SpecCorr *)

\* C1: the continuation of a request key is invoked at most once, however
\* many checks run: at most one check ever finds the reply or error recorded,
\* and once the continuation has been invoked no check is scheduled for the
\* key any more.
C1_ContinuationAtMostOnce ==
    \A k \in Keys :
        /\ fired[k] <= 1
        /\ satPolls[k] <= 1
        /\ fired[k] = 1 => scheduled[k] = 0

\* a key whose continuation fired on a reply after the checks before it
\* had found nothing
C1_Witness ==
    \E k \in Keys :
        /\ fired[k] = 1 /\ scheduled[k] = 0
        /\ polls[k] = MaxPolls /\ replies[k] /= None /\ errors[k] = None

\* C2: for one request key the continuation is invoked at exactly the checks
\* that find a reply or an error recorded: at the first such check, and at
\* no check that finds neither (no condition being given).
C2_FiresAtFirstSatisfiedPoll ==
    \A k \in Keys : fired[k] = satPolls[k]

\* a key checked once with nothing recorded, then an error was recorded and
\* the next check invoked the continuation
C2_Witness ==
    \E k \in Keys :
        /\ polls[k] = 2 /\ satPolls[k] = 1 /\ fired[k] = 1
        /\ errors[k] /= None /\ replies[k] = None

\* C3: while neither a reply nor an error is recorded for a submitted key,
\* exactly one check is scheduled for it (so the next check can always run)
\* and its continuation has not been invoked.
C3_PendingAlwaysRescheduled ==
    \A k \in submitted :
        (replies[k] = None /\ errors[k] = None)
            => (scheduled[k] = 1 /\ fired[k] = 0 /\ ENABLED RunCheck(k))

\* a key still without reply or error after MaxPolls checks, checked again next
C3_Witness ==
    \E k \in submitted :
        /\ replies[k] = None /\ errors[k] = None
        /\ polls[k] = MaxPolls /\ scheduled[k] = 1

-----------------------------------------------------------------------------
(* Properties of the link lookup, under SpecLookup *)

Count(seq, x) == Cardinality({i \in 1..Len(seq) : seq[i] = x})
Searched == removeSpecialChars(cmd.query)
HasNotice(kind) == \E i \in 1..Len(cmd.out) : cmd.out[i].kind = kind
IsCandidate(n) == n.kind = "Candidate"
PrintedCandidates == SelectSeq(cmd.out, IsCandidate)
PrintedCount(name) ==
    Cardinality({i \in 1..Len(PrintedCandidates) :
                    PrintedCandidates[i].name = name})
FoundNames == {cmd.found[i] : i \in 1..Len(cmd.found)}
CaseInsensitiveEqual == {n \in FoundNames : lower(n) = lower(Searched)}

\* C4 (as claimed): whenever two or more links match the query in total,
\* the lookup selects no link.
C4_NeverGuesses ==
    (cmd.op /= "none" /\ Len(cmd.found) >= 2) => cmd.li = NoLink

\* C5 (as claimed): whenever the lookup reports more than one match, every
\* matched link's name is printed as a candidate exactly once, and nothing
\* else is.
C5_EveryCandidateListedOnce ==
    HasNotice("MoreThanOneLink") =>
        /\ \A n \in FoundNames : PrintedCount(n) = 1
        /\ Len(PrintedCandidates) = Len(cmd.found)

\* C6: a link command whose search returns no link selects nothing, prints
\* the "no matching link" notice and not the "more than one link" notice,
\* raises nothing, and changes neither the links nor their state.
C6_NotFoundReported ==
    [][(cmd'.op /= "none" /\ cmd' /= cmd /\ cmd'.found = <<>>) =>
          /\ cmd'.li = NoLink
          /\ \E i \in 1..Len(cmd'.out) : cmd'.out[i].kind = "NoLinkFound"
          /\ \A i \in 1..Len(cmd'.out) : cmd'.out[i].kind /= "MoreThanOneLink"
          /\ links' = links /\ isAccepted' = isAccepted]_vars

\* a lookup in a wallet that holds links, none of which matches
C6_Witness ==
    /\ cmd.op = "lookup" /\ links /= <<>> /\ cmd.found = <<>>
    /\ cmd.li = NoLink /\ HasNotice("NoLinkFound")

\* C7 (as claimed): when exactly one link's name equals the query, letter
\* case ignored, the lookup selects that link and prints the "Expanding"
\* notice exactly when the stored name differs from the query.
C7_CaseInsensitiveUnique ==
    (cmd.op /= "none" /\ Cardinality(CaseInsensitiveEqual) = 1) =>
        \A n \in CaseInsensitiveEqual :
            /\ cmd.li = n
            /\ HasNotice("Expanding") <=> n /= Searched

\* C7 (amended): when the search returns exactly one link and its name
\* equals the query, letter case ignored, the lookup selects it; the
\* "Expanding" notice is printed exactly when the name the command holds
\* differs from the stored name by more than letter case, so never for a
\* difference of letter case alone.
C7_SingleMatchSelected ==
    (cmd.op /= "none" /\ Len(cmd.found) = 1
        /\ lower(cmd.found[1]) = lower(Searched)) =>
        /\ cmd.li = cmd.found[1]
        /\ HasNotice("Expanding") <=> lower(cmd.query) /= lower(cmd.found[1])
        /\ cmd.op = "lookup" => ~HasNotice("Expanding")

\* the only match differs from the query in letter case: selected, no notice
C7_Witness ==
    /\ cmd.op = "lookup" /\ Len(cmd.found) = 1
    /\ cmd.found[1] /= Searched /\ lower(cmd.found[1]) = lower(Searched)
    /\ cmd.li = cmd.found[1] /\ ~HasNotice("Expanding")

\* C8: when no link's name equals the query (letter case ignored) and the
\* search returns exactly one link, the lookup selects that link and prints
\* the "Expanding" notice naming the query and the stored name.
C8_SingleFuzzyExpanded ==
    (cmd.op /= "none" /\ Len(cmd.found) = 1 /\ CaseInsensitiveEqual = {}) =>
        /\ cmd.li = cmd.found[1]
        /\ \E i \in 1..Len(cmd.out) :
               cmd.out[i] = Notice("Expanding", cmd.query, cmd.found[1])

\* query "a", the only match "Aa": selected and expanded
C8_Witness ==
    /\ cmd.op = "lookup" /\ cmd.query = <<"a">>
    /\ cmd.found = << <<"A", "a">> >> /\ cmd.li = <<"A", "a">>
    /\ HasNotice("Expanding")

\* C9 (as claimed): a link the search returned is under exact if and only if
\* its name equals the query, letter case ignored, and under likely otherwise.
C9_ExactIffCaseInsensitive ==
    cmd.op /= "none" =>
        \A n \in FoundNames :
            /\ Count(dictItems(cmd.exact), n) = 1 <=> lower(n) = lower(Searched)
            /\ Count(dictItems(cmd.likely), n) = 1 <=> lower(n) /= lower(Searched)

\* C9 (amended): a link the search returned is under exact if and only if
\* its name equals the query character for character, and under likely
\* otherwise, also when it differs from the query only in letter case.
C9_ExactIffIdentical ==
    cmd.op /= "none" =>
        \A n \in FoundNames :
            /\ Count(dictItems(cmd.exact), n) = 1 <=> n = Searched
            /\ Count(dictItems(cmd.likely), n) = 1 <=> n /= Searched

\* a returned link that differs from the query only in letter case is likely
C9_Witness ==
    /\ cmd.op /= "none"
    /\ \E n \in FoundNames :
          /\ n /= Searched /\ lower(n) = lower(Searched)
          /\ Count(dictItems(cmd.likely), n) = 1
          /\ Count(dictItems(cmd.exact), n) = 0

\* C10: every link the search returned is in exactly one of exact and
\* likely, once, and the two hold nothing else.
C10_ExactLikelyPartition ==
    cmd.op /= "none" =>
        /\ \A n \in FoundNames :
              Count(dictItems(cmd.exact), n) + Count(dictItems(cmd.likely), n) = 1
        /\ Len(dictItems(cmd.exact)) + Len(dictItems(cmd.likely))
              = Len(cmd.found)

\* a search that returned one exact and two likely links
C10_Witness ==
    /\ cmd.op /= "none" /\ Len(cmd.found) = 3
    /\ Len(dictItems(cmd.exact)) = 1 /\ Len(dictItems(cmd.likely)) = 2

\* C11: a selected link is the first link of the first keyring under exact
\* whenever exact holds any link; it is taken from likely (again the first
\* link of the first keyring) only when exact is empty.
C11_ExactPreferred ==
    (cmd.op /= "none" /\ cmd.li /= NoLink) =>
        /\ cmd.li /= IndexError
        /\ DOMAIN cmd.exact /= {} => cmd.li = firstValue(cmd.exact)[1]
        /\ DOMAIN cmd.exact = {} => cmd.li = firstValue(cmd.likely)[1]

\* a search with a link under exact and a link under likely: the exact one
\* was selected
C11_Witness ==
    /\ cmd.op = "lookup" /\ DOMAIN cmd.exact /= {} /\ DOMAIN cmd.likely /= {}
    /\ cmd.li = firstValue(cmd.exact)[1]
    /\ cmd.li /= firstValue(cmd.likely)[1]

-----------------------------------------------------------------------------
(* Properties of sync and accept, under SpecLink *)

NoticeCount(out, kind) ==
    Cardinality({i \in 1..Len(out) : out[i].kind = kind})

\* C12: an accept command whose lookup gives a link that is accepted prints
\* the "already accepted" notice for it and, the lookup's "Expanding" notice
\* aside, nothing else; it asks the agent for no synchronization and no
\* acceptance, creates no key, and leaves every link's endpoint, sync stamp
\* and accepted flag as they were.
C12_AlreadyAcceptedNoOp ==
    [][(cmd = NoCmd /\ cmd'.op = "accept" /\ IsLink(cmd'.li)
          /\ isAccepted[cmd'.li]) =>
          /\ \E i \in 1..Len(cmd'.out) :
                 cmd'.out[i] = Notice("AlreadyAccepted", <<>>, cmd'.li)
          /\ \A i \in 1..Len(cmd'.out) :
                 cmd'.out[i].kind \in {"Expanding", "AlreadyAccepted"}
          /\ NoticeCount(cmd'.out, "AlreadyAccepted") = 1
          /\ syncs' = syncs /\ acceptLog' = acceptLog
          /\ identifiers' = identifiers
          /\ remoteEndPoint' = remoteEndPoint
          /\ linkLastSynced' = linkLastSynced
          /\ isAccepted' = isAccepted]_vars

\* accept on a link accepted before, in a keyring without a key and while
\* connected: only the notice
C12_Witness ==
    /\ cmd.op = "accept" /\ IsLink(cmd.li) /\ isAccepted[cmd.li]
    /\ HasNotice("AlreadyAccepted")
    /\ effects.connected /\ ~effects.syncStarted /\ ~effects.acceptSent
    /\ identifiers = 0

AcceptCalls(n) == SelectSeq(acceptLog, LAMBDA c : c.name = n)

\* C13 (as claimed): however the accept commands on a link follow one another,
\* acceptInvitation is sent to the agent at most once for the link.
C13_AcceptInvitationSentOnce ==
    \A n \in DOMAIN isAccepted : Len(AcceptCalls(n)) <= 1

\* C14: every acceptInvitation the agent received was for a link that
\* carried a remote endpoint at that moment. An accept command that runs
\* connected on a link not yet accepted starts a synchronization and sends
\* nothing itself; an acceptInvitation sent after a synchronization comes
\* from the continuation of an accept's synchronization of that link that
\* reported no error, and a synchronization that reported an error sent none.
C14_AcceptOnlyWithEndpoint ==
    /\ \A j \in 1..Len(acceptLog) :
          /\ acceptLog[j].endpoint /= None
          /\ acceptLog[j].via = "postSync" =>
                /\ acceptLog[j].attempt \in 1..Len(syncs)
                /\ syncs[acceptLog[j].attempt].state = "ok"
                /\ syncs[acceptLog[j].attempt].name = acceptLog[j].name
                /\ syncs[acceptLog[j].attempt].postSync = "_acceptLinkPostSync"
    /\ \A i \in 1..Len(syncs) :
          syncs[i].state /= "ok" =>
              \A j \in 1..Len(acceptLog) : acceptLog[j].attempt /= i
    /\ (cmd.op = "accept" /\ IsLink(cmd.li) /\ effects.connected
            /\ ~HasNotice("AlreadyAccepted")) =>
          /\ effects.syncStarted /\ ~effects.acceptSent
          /\ \E i \in 1..Len(syncs) :
                syncs[i].name = cmd.li /\ syncs[i].postSync = "_acceptLinkPostSync"
    /\ effects.acceptSent => ~effects.connected

\* a link loaded without endpoint: the synchronization of an accept resolved
\* one and its continuation sent acceptInvitation; another synchronization
\* of an accept found none and sent nothing
C14_Witness ==
    /\ \E j \in 1..Len(acceptLog) :
          acceptLog[j].via = "postSync" /\ acceptLog[j].endpoint = "EpResolved"
    /\ \E i \in 1..Len(syncs) :
          /\ syncs[i].state = "ok" /\ syncs[i].postSync = "_acceptLinkPostSync"
          /\ NoticeCount(syncs[i].out, "RemoteEndpointNotFound") = 1

\* C15: an accept command that runs without connection on a link not yet
\* accepted asks for no synchronization and creates no key. If the link
\* carries a remote endpoint, acceptInvitation is sent for it at once;
\* if not, the "acceptance aborted" and "not connected, please connect"
\* notices are printed and nothing is sent. Either way no link changes.
C15_OfflineAccept ==
    [][(cmd = NoCmd /\ cmd'.op = "accept" /\ IsLink(cmd'.li)
          /\ ~isAccepted[cmd'.li] /\ ~_isConnectedToAnyEnv) =>
          /\ syncs' = syncs
          /\ identifiers' = identifiers
          /\ remoteEndPoint' = remoteEndPoint
          /\ linkLastSynced' = linkLastSynced
          /\ isAccepted' = isAccepted
          /\ IF remoteEndPoint[cmd'.li] /= None
             THEN /\ acceptLog' = Append(acceptLog,
                         [name |-> cmd'.li, endpoint |-> remoteEndPoint[cmd'.li],
                          via |-> "direct", attempt |-> 0, done |-> FALSE])
                  /\ NoticeCount(cmd'.out, "InvitationAcceptanceAborted") = 0
             ELSE /\ acceptLog' = acceptLog
                  /\ NoticeCount(cmd'.out, "InvitationAcceptanceAborted") = 1
                  /\ NoticeCount(cmd'.out,
                                 "CannotSyncNotConnectedPleaseConnect") = 1]_vars

\* without connection: acceptInvitation was sent directly for a link loaded
\* with an endpoint, and the accept of a link without one has just been
\* aborted, in a keyring that still has no key
C15_Witness ==
    /\ \E j \in 1..Len(acceptLog) : acceptLog[j].via = "direct"
    /\ cmd.op = "accept" /\ IsLink(cmd.li) /\ ~effects.connected
    /\ HasNotice("InvitationAcceptanceAborted")
    /\ remoteEndPoint[cmd.li] = None
    /\ identifiers = 0 /\ syncs = <<>>

Finished(i) == syncs[i].state \in {"ok", "err"}
FailsNow(i) ==
    /\ i \in 1..Len(syncs) /\ syncs[i].state = "pending"
    /\ i \in 1..Len(syncs') /\ syncs'[i].state = "err"

\* C16 (as claimed): the continuation handed to a synchronization has been
\* invoked once the synchronization is finished, whether it succeeded or
\* reported an error.
C16_ContinuationInBothOutcomes ==
    \A i \in 1..Len(syncs) : Finished(i) => syncs[i].invoked

\* C16 (amended): the continuation handed to a synchronization is invoked
\* exactly when the synchronization finished without error, the link then
\* bearing a sync stamp; when it reported an error, the error is printed,
\* the continuation is not invoked, and the step changes no link, no key
\* and sends nothing to the agent.
C16_ContinuationOnSuccessOnly ==
    /\ [](\A i \in 1..Len(syncs) :
            /\ syncs[i].invoked <=> syncs[i].state = "ok"
            /\ syncs[i].state = "ok" =>
                  linkLastSynced[syncs[i].name] /= NeverSynced
            /\ syncs[i].state = "err" =>
                  syncs[i].out = <<Notice("SyncError", <<>>, syncs[i].name)>>)
    /\ [][(\E i \in 1..MaxLinkCmds : FailsNow(i)) =>
            /\ remoteEndPoint' = remoteEndPoint
            /\ linkLastSynced' = linkLastSynced
            /\ isAccepted' = isAccepted
            /\ identifiers' = identifiers
            /\ acceptLog' = acceptLog]_vars

\* one synchronization failed, its continuation not invoked; another
\* succeeded and its continuation ran
C16_Witness ==
    \E i, k \in 1..Len(syncs) :
        /\ syncs[i].state = "err" /\ ~syncs[i].invoked
        /\ syncs[k].state = "ok" /\ syncs[k].invoked

Failed(n) == {i \in 1..Len(syncs) : syncs[i].name = n /\ syncs[i].state = "err"}

\* C17: the step in which a synchronization reports an error changes no
\* link's endpoint, sync stamp or accepted flag and sends no acceptInvitation;
\* no acceptInvitation is ever owed to a failed synchronization; and a link
\* with a failed synchronization is treated like any other afterwards: once
\* connected, a sync of it, or an accept if it is not accepted, starts a
\* synchronization again.
C17_SyncErrorNotSticky ==
    /\ [][(\E i \in 1..MaxLinkCmds : FailsNow(i)) =>
            /\ remoteEndPoint' = remoteEndPoint
            /\ linkLastSynced' = linkLastSynced
            /\ isAccepted' = isAccepted
            /\ acceptLog' = acceptLog]_vars
    /\ [](\A n \in DOMAIN isAccepted :
            Failed(n) /= {} =>
              /\ \A j \in 1..Len(acceptLog) : acceptLog[j].attempt \notin Failed(n)
              /\ _isConnectedToAnyEnv =>
                    /\ _syncLinkInvitation(n).syncStarted
                    /\ ~isAccepted[n] => _acceptLinkInvitation(n).syncStarted)

\* a link whose first synchronization (of an accept) failed and whose second
\* succeeded: endpoint resolved, acceptInvitation sent, link accepted
C17_Witness ==
    \E n \in DOMAIN isAccepted : \E i \in Failed(n) : \E k \in 1..Len(syncs) :
        /\ k > i /\ syncs[k].name = n /\ syncs[k].state = "ok"
        /\ remoteEndPoint[n] = "EpResolved" /\ isAccepted[n]
        /\ \E j \in 1..Len(acceptLog) : acceptLog[j].attempt = k

\* C18 (as claimed): a sync command that finds its link while there is no
\* connection (no environment, or an environment without enough node
\* connections) asks the agent for nothing and prints the "cannot sync
\* because not connected, please connect first" notice.
C18_OfflineSyncNotifies ==
    (cmd.op = "sync" /\ IsLink(cmd.li) /\ ~effects.connected) =>
        /\ ~effects.syncStarted
        /\ NoticeCount(cmd.out, "CannotSyncNotConnectedPleaseConnect") = 1

\* C19: whenever a synchronization has been asked of the agent the keyring
\* holds a key; the command that asks for it (sync, or the sync step of
\* accept) creates exactly one key before asking if the keyring held none,
\* and none if it held one or more.
C19_KeyBeforeSync ==
    /\ [](syncs /= <<>> => identifiers >= 1)
    /\ [](effects.syncStarted =>
            /\ identifiers >= 1
            /\ effects.keyCreated => identifiers = 1)
    /\ [][syncs' /= syncs /\ Len(syncs') > Len(syncs) =>
            /\ identifiers = 0 => identifiers' = 1
            /\ identifiers >= 1 => identifiers' = identifiers]_vars

\* a sync in a keyring without key: one key was created and the
\* synchronization started
C19_Witness ==
    /\ cmd.op = "sync" /\ effects.syncStarted /\ effects.keyCreated
    /\ identifiers = 1 /\ Len(syncs) = 1
    /\ HasNotice("NoKeyPresentSoAddingOne")

-----------------------------------------------------------------------------
(* Properties of the claim request context, under SpecContext *)

\* the command just run is a show claim request that found one claim request
ShowFound(c) == c.op = "showClaimReq" /\ Len(c.found) = 1

\* C20: a show claim request that finds the pair (link, claim request) the
\* context already holds leaves the context as it is, so every attribute set
\* since that pair was first shown keeps its value; one that finds a different
\* pair makes that pair the context and empties the attributes.  A set, with
\* a claim request current, stores the value under the name and keeps the
\* other attributes; a show that finds nothing, or several, and every other
\* step leave the context alone.
C20_ContextKeptOrReset ==
    [][/\ (cmd = NoCmd /\ ShowFound(cmd')) =>
             LET cr == cmd'.found[1]
             IN IF cr.owner = curContext.link /\ cr = curContext.claimReq
                THEN curContext' = curContext
                ELSE curContext' = [link |-> cr.owner, claimReq |-> cr,
                                    attrs |-> NoAttrs]
       /\ (cmd = NoCmd /\ cmd'.op = "setAttr"
                /\ curContext.claimReq /= NoClaimReq) =>
             /\ curContext'.link = curContext.link
             /\ curContext'.claimReq = curContext.claimReq
             /\ DOMAIN curContext'.attrs
                    = DOMAIN curContext.attrs \cup {cmd'.raw[1]}
             /\ curContext'.attrs[cmd'.raw[1]] = cmd'.raw[2]
             /\ \A a \in DOMAIN curContext.attrs \ {cmd'.raw[1]} :
                    curContext'.attrs[a] = curContext.attrs[a]
       /\ ~(cmd = NoCmd /\ (ShowFound(cmd') \/ cmd'.op = "setAttr")) =>
             curContext' = curContext
      ]_vars

\* C20 happens: the claim request just shown is the one that was current, and
\* the attribute set to "x" before it was shown again still has that value
C20_Witness ==
    /\ ShowFound(cmd)
    /\ curContext.claimReq = cmd.found[1]
    /\ curContext.link = cmd.found[1].owner
    /\ "first_name" \in DOMAIN curContext.attrs
    /\ curContext.attrs["first_name"] = "x"

\* the command just run is a set
SetRun == cmd = NoCmd /\ cmd'.op = "setAttr"

\* C21: a set run while no claim request is current, as in a session where
\* no show claim request has found one yet, prints "No context" and then the
\* usage of show claim request, and leaves the context, its attributes
\* included, as it was.
C21_SetWithoutContext ==
    /\ [](curContext.claimReq = NoClaimReq => curContext = NoContext)
    /\ [][(SetRun /\ curContext.claimReq = NoClaimReq) =>
             /\ cmd'.out = <<Msg("NoContext"), Msg("ShowClaimReqUsage")>>
             /\ curContext' = curContext]_vars

\* C21 happens: a set was just run in a session without a current claim request
C21_Witness ==
    /\ cmd.op = "setAttr"
    /\ cmd.raw = <<"first_name", "x">>
    /\ cmd.out = <<Msg("NoContext"), Msg("ShowClaimReqUsage")>>
    /\ curContext = NoContext

\* C22: a set run with a current claim request stores the value under the
\* name, in place of any value stored under it before, prints nothing, and
\* leaves the current link, the current claim request, every other attribute
\* and everything outside the context as they were.
C22_SetStoresOneAttribute ==
    [][(SetRun /\ curContext.claimReq /= NoClaimReq) =>
          /\ curContext'.link = curContext.link
          /\ curContext'.claimReq = curContext.claimReq
          /\ DOMAIN curContext'.attrs = DOMAIN curContext.attrs \cup {cmd'.raw[1]}
          /\ curContext'.attrs[cmd'.raw[1]] = cmd'.raw[2]
          /\ \A a \in DOMAIN curContext.attrs \ {cmd'.raw[1]} :
                 curContext'.attrs[a] = curContext.attrs[a]
          /\ cmd'.out = <<>>
          /\ UNCHANGED <<links, isAccepted, effects, lifeVars, corrVars>>]_vars

\* C22 happens: with both attributes stored, first_name was just set to "y"
C22_Witness ==
    /\ cmd.op = "setAttr"
    /\ cmd.raw = <<"first_name", "y">>
    /\ curContext.claimReq /= NoClaimReq
    /\ DOMAIN curContext.attrs = {"first_name", "ssn"}
    /\ curContext.attrs["first_name"] = "y"
    /\ curContext.attrs["ssn"] = "x"

-----------------------------------------------------------------------------
(* Properties of the claim proof resolution, under SpecContext *)

\* a _showMatchingClaimProof has just run
Resolved == resolved.claimReq /= NoClaimReq

\* some matching claim carries attribute k
Issued(k) == \E j \in 1..Len(resolved.claims) : k \in DOMAIN resolved.claims[j]

\* C23: after a run of _showMatchingClaimProof every attribute of the claim
\* proof request has the value of highest priority that exists: the issued
\* value of a matching claim that carries it; failing that the self attested
\* value; failing that the value the request had.  This for no, one or
\* several matching claims, whichever of them carry the attribute.
C23_HighestPriorityWins ==
    Resolved =>
        \A k \in DOMAIN resolved.before :
            IF Issued(k)
            THEN \E j \in 1..Len(resolved.claims) :
                     /\ k \in DOMAIN resolved.claims[j]
                     /\ resolved.after[k] = resolved.claims[j][k]
            ELSE IF k \in DOMAIN resolved.selfAttestedAttrs
            THEN resolved.after[k] = resolved.selfAttestedAttrs[k]
            ELSE resolved.after[k] = resolved.before[k]

\* C24: after a run of _showMatchingClaimProof, an attribute of the request
\* that no matching claim carries (also when there is no matching claim) and
\* that has a self attested value set earlier has that value, and is not
\* printed as verifiable.
C24_SelfAttestedWhenNotIssued ==
    Resolved =>
        \A k \in DOMAIN resolved.before :
            (~Issued(k) /\ k \in DOMAIN resolved.selfAttestedAttrs) =>
                /\ resolved.after[k] = resolved.selfAttestedAttrs[k]
                /\ k \notin resolved.verifiable

\* C25: when send claim passes to the agent's sendProof the claim request
\* that is current in the context, every attribute of it that the user has
\* self attested since it was shown goes to the agent with that value (or
\* with an issued one, which has priority), without showing it again.
C25_SelfAttestedCarriedToProof ==
    (/\ cmd.op = "sendClaim"
     /\ sent /= <<>>
     /\ sent[1].link = curContext.link
     /\ sent[1].claimReq = curContext.claimReq) =>
        \A k \in DOMAIN curContext.attrs \cap DOMAIN sent[1].attributes :
            sent[1].attributes[k] \in {curContext.attrs[k], IssuedValue}

\* C27: a _showMatchingClaimProof run that is given no self attested value,
\* as is the run for a claim request shown again after the context was reset
\* by showing another one, gives no attribute a value the user self attested
\* earlier: the run reads the stored claim request and writes nothing into it.
C27_ResetForgetsSelfAttested ==
    (Resolved /\ resolved.selfAttestedAttrs = NoAttrs) =>
        \A k \in DOMAIN resolved.after : resolved.after[k] \notin AttrValues

-----------------------------------------------------------------------------
(* Properties of the claim lookups, under SpecClaim *)

\* C28: a request claim, or the display that show claim scheduled, whose
\* lookup matched more than one (link, claim) pair prints the "more than one
\* link matches" notice with the link of every candidate, prints no "no
\* matching claim(s) found" notice, and asks nothing of the agent.
C28_AmbiguousClaimReported ==
    (/\ cmd.op \in {"reqClaim", "showReceivedOrAvailableClaim"}
     /\ Len(cmd.found) > 1) =>
        /\ NoticeCount(cmd.out, "MoreThanOneLinkMatches") = 1
        /\ \A i \in 1..Len(cmd.found) :
               \E n \in 1..Len(cmd.out) :
                   /\ cmd.out[n].kind = "LinkName"
                   /\ cmd.out[n].name = cmd.found[i].owner
        /\ NoticeCount(cmd.out, "NoMatchingClaimFound") = 0
        /\ NoticeCount(cmd.out, "NoMatchingClaimFoundInAnyLinks") = 0
        /\ sent = <<>>

-----------------------------------------------------------------------------
(* The context is written by two commands only, under SpecContext *)

\* C26: the context triple changes only in a step of show claim request whose
\* lookup found exactly one (link, claim request) pair, or in a step of set:
\* a show claim request that found none or several, a send claim, a request
\* claim, a run of the scheduled display and the prompt leave it as it was.
C26_ContextWrittenByShowAndSetOnly ==
    [][/\ curContext' /= curContext =>
             /\ cmd = NoCmd
             /\ \/ cmd'.op = "showClaimReq" /\ Len(cmd'.found) = 1
                \/ cmd'.op = "setAttr"
       /\ (cmd = NoCmd /\ cmd'.op = "showClaimReq" /\ Len(cmd'.found) /= 1) =>
             /\ curContext' = curContext
             /\ cmd'.li = NoLink
      ]_vars

\* C26 happens: a show claim request just found several pairs, and the
\* context still holds the claim request and the attribute set before it
C26_Witness ==
    /\ cmd.op = "showClaimReq"
    /\ Len(cmd.found) > 1
    /\ curContext.claimReq /= NoClaimReq
    /\ DOMAIN curContext.attrs = {"ssn"}

-----------------------------------------------------------------------------
(* Properties of send POOL_UPGRADE, under SpecUpgrade *)

\* the input of the command is malformed: start without a schedule, start
\* without a timeout, or a schedule that cannot be parsed
Malformed(raw) ==
    \/ raw[2] = START /\ raw[3] = None
    \/ raw[2] = START /\ raw[4] = None
    \/ raw[3] = "Unparsable"

\* C30: a send POOL_UPGRADE whose input is malformed records no upgrade in
\* the wallet, submits no request and schedules no completion check, and,
\* when requests can be made at all, prints exactly one notice, which says
\* what is wrong.
C30_MalformedUpgradeAborts ==
    [][(cmd = NoCmd /\ cmd'.op = "sendPoolUpg" /\ Malformed(cmd'.raw)) =>
          /\ UNCHANGED corrVars
          /\ cmd'.raw[1] =>
                /\ Len(cmd'.out) = 1
                /\ cmd'.out[1].kind \in {"ScheduleNeedToBeProvided",
                                         "TimeoutNeedToBeProvided",
                                         "ScheduleMustBeInProperFormat"}]_vars

\* C30 happens: after an upgrade that was sent, a start with a schedule that
\* cannot be parsed was reported, and the wallet still holds the one upgrade
C30_Witness ==
    /\ cmd.op = "sendPoolUpg"
    /\ cmd.raw = <<TRUE, START, "Unparsable", "10">>
    /\ cmd.out = <<Msg("ScheduleMustBeInProperFormat")>>
    /\ submitted = {1}
    /\ walletObjs[2] = None

-----------------------------------------------------------------------------
(* Properties of the continuations, under SpecLedger and SpecSubmit *)

\* C31: a continuation that a completion check invoked, in particular one
\* handed an error and no reply, has printed its outcome and has not faulted
\* on the missing reply; this for get NYM, add NYM, add attribute, node
\* request and pool upgrade.
C31_ContinuationNeverFaults ==
    \A k \in Keys : fired[k] > 0 => contOut[k] /= TypeError

\* C32: the step of a command that submits a ledger request invokes no
\* continuation and runs no completion check: it schedules one check for the
\* new key, to be run by the event loop after the command has returned.
C32_ContinuationNotInCommand ==
    [][\A k \in Keys :
          (k \notin submitted /\ k \in submitted')
              => /\ fired' = fired /\ contOut' = contOut
                 /\ polls' = polls /\ satPolls' = satPolls
                 /\ scheduled'[k] = scheduled[k] + 1]_vars

\* the command has returned, the reply is recorded, and the continuation
\* waits for the scheduled check
C32_Witness ==
    \E k \in submitted :
        /\ replies[k] /= None
        /\ fired[k] = 0 /\ polls[k] = 0 /\ scheduled[k] = 1

\* C33: with the event loop running the checks it has scheduled, a submitted
\* request for which a reply or an error is recorded eventually has its
\* continuation invoked, whatever the other request is doing.
C33_AnsweredEventuallyContinued ==
    \A k \in Keys :
        (k \in submitted /\ (replies[k] /= None \/ errors[k] /= None))
            ~> (fired[k] = 1)

\* the second request was answered and continued while the first, submitted
\* before it and checked already, is still pending
C33_Witness ==
    /\ submitted = Keys
    /\ replies[1] = None /\ errors[1] = None /\ polls[1] > 0 /\ fired[1] = 0
    /\ (replies[2] /= None \/ errors[2] /= None) /\ fired[2] = 1

-----------------------------------------------------------------------------
(* Request claim and the connection, under SpecClaim *)

\* C34: a request claim asks the agent for a claim only when its lookup found
\* exactly one (link, available claim) pair and the shell is connected, and
\* then for that pair; with one pair found and no connection it prints the
\* not-connected notice and asks nothing of the agent.
C34_RequestOnlyWhenConnected ==
    [][(cmd = NoCmd /\ cmd'.op = "reqClaim") =>
          LET connected == activeEnv /= None /\ hasSufficientConnections
              one == Len(cmd'.found) = 1
          IN /\ sent' /= <<>> =>
                    /\ one /\ connected
                    /\ sent' = <<[op |-> "sendReqClaim",
                                  link |-> cmd'.found[1].owner,
                                  claim |-> cmd'.found[1]]>>
             /\ (one /\ ~connected) =>
                    /\ sent' = <<>>
                    /\ NoticeCount(cmd'.out,
                                   "NotConnectedToSovrinPleaseConnect") = 1
                    /\ NoticeCount(cmd'.out, "RequestingClaim") = 0]_vars

\* a request claim with a single match issued while an environment is
\* chosen but not yet connected
C34_Witness ==
    /\ cmd.op = "reqClaim" /\ Len(cmd.found) = 1
    /\ activeEnv /= None /\ ~hasSufficientConnections
    /\ sent = <<>>
    /\ NoticeCount(cmd.out, "NotConnectedToSovrinPleaseConnect") = 1

-----------------------------------------------------------------------------
(* What a continuation prints for a failed request, under SpecLedger *)

\* C35: a continuation invoked for a request that completed with an error
\* (and no reply) has not printed a success notice: no "Pool upgrade
\* successful", "Attribute added", "Nym added" or node-completed notice.
C35_SuccessOnlyWithoutError ==
    \A k \in Keys :
        (fired[k] > 0 /\ errors[k] /= None /\ replies[k] = None) =>
            contOut[k] \notin {<<"PoolUpgradeSuccessful">>, <<"AttributeAdded">>,
                               <<"NymAdded">>, <<"NodeRequestCompleted">>}

-----------------------------------------------------------------------------
(* Connect, disconnect and the ledger commands, under SpecEnv *)

\* C36: over any sequence of connect and disconnect commands, the "Connected
\* to <env>" notice is printed at most once for each connect command: the
\* connection check started by a connect that was superseded prints no notice
\* for the connect that came after it.
C36_ConnectedNoticeOnce ==
    \A n \in 1..MaxConnects : connNotices[n] <= 1

\* C37: a request is submitted to the client, and a completion check started
\* for it, only in a step taken while the wallet holds a key, an environment
\* is active and the active wallet belongs to the current context; in
\* particular none is submitted between a disconnect and the next connect.
C37_NoRequestUnlessAllowed ==
    [][submitted' /= submitted =>
          /\ hasAnyKey
          /\ activeEnv /= None
          /\ checkIfWalletBelongsToCurrentContext(activeWallet, activeEnv)]_vars

\* C39: a connect that names the active environment, an unknown environment
\* or one whose pool ledger file is missing, and a disconnect given while no
\* environment is active, leave the active environment, the active wallet,
\* the active client and the prompt as they were.
C39_RejectedLeavesSession ==
    [][(/\ cmd = NoCmd
        /\ \/ /\ cmd'.op = "connect"
              /\ \/ cmd'.raw = activeEnv
                 \/ cmd'.raw \notin Envs
                 \/ cmd'.out[1].kind = "DoNotHaveInformationToConnectTo"
           \/ cmd'.op = "disconnect" /\ activeEnv = None) =>
          UNCHANGED <<activeEnv, activeWallet, activeClient, promptEnv>>]_vars

\* a connect to the environment already active, with its client built and
\* the prompt showing it, was rejected
C39_Witness ==
    /\ cmd.op = "connect" /\ cmd.raw = activeEnv
    /\ cmd.out[1].kind = "AlreadyConnectedTo"
    /\ activeClient /= NoClient /\ activeWallet /= None
    /\ promptEnv = activeEnv

-----------------------------------------------------------------------------
(* Ping, under SpecPing *)

-----------------------------------------------------------------------------
(* send ISSUER_KEY, under SpecEnv *)

\* C40: a send ISSUER_KEY whose schema was not found has printed "Reference
\* not found" and has neither asked the wallet for a public key nor printed
\* the "issuer key is published" notice.
C40_MissingSchemaStops ==
    (cmd.op = "sendIssuerKey" /\ NoticeCount(cmd.out, "ReferenceNotFound") = 1)
        => /\ \A i \in 1..Len(sent) : sent[i].op /= "getPublicKey"
           /\ NoticeCount(cmd.out, "IssuerKeyPublished") = 0

====
